---- MODULE Spec2Model ----
(***************************************************************************)
(* A model of the swagent core: the $ref resolver (resolve-refs.ts), the   *)
(* schema renderers (compact-schema.ts) and the generators built on them.  *)
(*                                                                         *)
(* A JavaScript value is a tree.  An object or an array carries an         *)
(* identity: that of a node of the input document is its path from the     *)
(* root, that of an object the code creates is Fresh.  Every assignment    *)
(* the code makes to a property of an object that is not Fresh is recorded *)
(* as a write, so a change of the caller's document is visible.            *)
(***************************************************************************)
EXTENDS Integers, Sequences, FiniteSets, TLC

VARIABLES
  doc,      \* the input document, as it was when it was built
  spec,     \* the caller's document, as it is now
  status,   \* "idle" before the call; "returned" or "threw" after it
  out,      \* the value resolveRefs returned
  calls,    \* one record per finished call of the function under study, in
            \* return order
  history   \* one record per finished call of generate: its options and output

vars == <<doc, spec, status, out, calls, history>>

(***************************************************************************)
(* Bounds of the model.                                                    *)
(***************************************************************************)
\* Nested activations of deepResolve the JavaScript call stack holds before
\* the engine throws RangeError (in V8 about 10^4; any bound above the depth
\* of the deepest terminating resolution of the model behaves alike).
MaxStack == 24

(***************************************************************************)
(* JavaScript values.  A primitive carries its payload under a field of    *)
(* its own, so that two values of different types are comparable.          *)
(***************************************************************************)
Null == [k |-> "null"]
Undefined == [k |-> "undefined"]
Str(s) == [k |-> "str", s |-> s]
Num(n) == [k |-> "num", n |-> n]
Bool(b) == [k |-> "bool", b |-> b]
\* A function object, such as the Object.prototype.constructor every object
\* inherits: JSON has none, a property read can yield one.
FnValue == [k |-> "function"]

\* The identity of an object the code creates.
Fresh == <<>>
\* The identity of the root of the input document.
RootId == <<"#">>

Obj(id, entries) == [k |-> "obj", id |-> id, e |-> entries]
Arr(id, items) == [k |-> "arr", id |-> id, a |-> items]

IsObj(v) == v.k = "obj"
IsArray(v) == v.k = "arr"

\* typeof v
TypeOf(v) ==
  CASE v.k \in {"obj", "arr", "null"} -> "object"
    [] v.k = "undefined" -> "undefined"
    [] v.k = "str" -> "string"
    [] v.k = "num" -> "number"
    [] v.k = "bool" -> "boolean"
    [] v.k = "function" -> "function"

\* !v
Falsy(v) ==
  \/ v.k = "null"
  \/ v.k = "undefined"
  \/ (v.k = "str" /\ v.s = "")
  \/ (v.k = "num" /\ v.n = 0)
  \/ (v.k = "bool" /\ ~v.b)

\* The sequence <<f[1], ..., f[n]>> of a function f on 1..n.
AsSeq(f) == f \o <<>>

\* v with every identity forgotten: what deep equality compares.
RECURSIVE Strip(_)
Strip(v) ==
  CASE v.k = "obj" -> Obj(Fresh, AsSeq([i \in 1..Len(v.e) |-> <<v.e[i][1], Strip(v.e[i][2])>>]))
    [] v.k = "arr" -> Arr(Fresh, AsSeq([i \in 1..Len(v.a) |-> Strip(v.a[i])]))
    [] OTHER -> v

\* v with the identities of a document whose root has identity `id`.
RECURSIVE Tag(_, _)
Tag(v, id) ==
  CASE v.k = "obj" ->
         Obj(id, AsSeq([i \in 1..Len(v.e) |->
                          <<v.e[i][1], Tag(v.e[i][2], Append(id, v.e[i][1]))>>]))
    [] v.k = "arr" ->
         Arr(id, AsSeq([i \in 1..Len(v.a) |-> Tag(v.a[i], Append(id, ToString(i - 1)))]))
    [] OTHER -> v

(***************************************************************************)
(* Strings.  A string is an atom of the model; the characters of the       *)
(* strings the code takes apart (the $ref strings) are tabulated here.     *)
(***************************************************************************)
RefA == "#/d/A"
RefB == "#/d/B"
RefMissing == "#/d/Z"
RefNoPrefix == "./d/A"
RefIntoString == "#/d/A/type"
RefInherited == "#/constructor"
RefItem == "#/components/schemas/Item"

Chars(s) ==
  CASE s = RefA -> <<"#", "/", "d", "/", "A">>
    [] s = RefB -> <<"#", "/", "d", "/", "B">>
    [] s = RefMissing -> <<"#", "/", "d", "/", "Z">>
    [] s = RefNoPrefix -> <<".", "/", "d", "/", "A">>
    [] s = RefIntoString -> <<"#", "/", "d", "/", "A", "/", "t", "y", "p", "e">>
    [] s = RefInherited ->
         <<"#", "/", "c", "o", "n", "s", "t", "r", "u", "c", "t", "o", "r">>
    [] s = RefItem ->
         <<"#", "/", "c", "o", "m", "p", "o", "n", "e", "n", "t", "s", "/",
           "s", "c", "h", "e", "m", "a", "s", "/", "I", "t", "e", "m">>
    [] s = "ab" -> <<"a", "b">>
    [] s = "" -> <<>>

\* The string of a sequence of characters.
RECURSIVE StringOf(_)
StringOf(cs) == IF cs = <<>> THEN "" ELSE Head(cs) \o StringOf(Tail(cs))

\* s.startsWith(prefix), on characters
StartsWith(cs, prefix) ==
  /\ Len(cs) >= Len(prefix)
  /\ SubSeq(cs, 1, Len(prefix)) = prefix

\* s.slice(n), on characters
Slice(cs, n) == SubSeq(cs, n + 1, Len(cs))

\* s.split(sep), on characters: the pieces between the separators, of which
\* there is always at least one (the empty string splits into <<"">>).
RECURSIVE SplitFrom(_, _, _)
SplitFrom(cs, sep, piece) ==
  IF cs = <<>> THEN <<StringOf(piece)>>
  ELSE IF Head(cs) = sep THEN <<StringOf(piece)>> \o SplitFrom(Tail(cs), sep, <<>>)
  ELSE SplitFrom(Tail(cs), sep, Append(piece, Head(cs)))

Split(cs, sep) == SplitFrom(cs, sep, <<>>)

(***************************************************************************)
(* Property access.                                                        *)
(***************************************************************************)
\* The members every object inherits from Object.prototype that the model
\* keeps (all of them functions).
InheritedKeys == {"constructor", "toString", "valueOf", "hasOwnProperty"}

\* The index of the own entry of `entries` with key `key`, 0 if there is none.
IndexOfKey(entries, key) ==
  IF \E i \in 1..Len(entries) : entries[i][1] = key
  THEN CHOOSE i \in 1..Len(entries) : entries[i][1] = key
  ELSE 0

\* Object.entries(v): the own enumerable string-keyed properties.  Those of
\* an array are its indices; a number or a boolean has none; those of a
\* string are its characters.
Entries(v) ==
  CASE v.k = "obj" -> v.e
    [] v.k = "arr" -> AsSeq([i \in 1..Len(v.a) |-> <<ToString(i - 1), v.a[i]>>])
    [] v.k = "str" -> AsSeq([i \in 1..Len(Chars(v.s)) |-> <<ToString(i - 1), Str(Chars(v.s)[i])>>])
    [] OTHER -> <<>>

HasOwn(v, key) == IndexOfKey(Entries(v), key) # 0

\* v[key] for a v that is neither null nor undefined: the own property, else
\* the inherited one, else undefined.
Get(v, key) ==
  IF HasOwn(v, key) THEN Entries(v)[IndexOfKey(Entries(v), key)][2]
  ELSE IF key = "length" /\ v.k = "arr" THEN Num(Len(v.a))
  ELSE IF key = "length" /\ v.k = "str" THEN Num(Len(v.s))
  ELSE IF key \in InheritedKeys THEN FnValue
  ELSE Undefined

\* entries with entries[key] = val: an existing key keeps its place.
SetKey(entries, key, val) ==
  IF IndexOfKey(entries, key) # 0
  THEN [entries EXCEPT ![IndexOfKey(entries, key)] = <<key, val>>]
  ELSE Append(entries, <<key, val>>)

\* obj[key] = val: the object after the assignment.
Put(obj, key, val) == [obj EXCEPT !.e = SetKey(@, key, val)]

\* The record of the assignment obj[key] = val: none when obj is an object
\* the code created, one write when it is an object of the input document.
WriteOf(obj, key, val) ==
  IF obj.id = Fresh THEN <<>> ELSE <<[id |-> obj.id, key |-> key, val |-> val]>>

(***************************************************************************)
(* What a call yields: the value returned (or that it threw), the records  *)
(* of the calls of deepResolve finished within it, and the writes it made  *)
(* to objects of the input document.                                       *)
(***************************************************************************)
Return(v) == [v |-> v, thrown |-> FALSE, log |-> <<>>, w |-> <<>>]
Throw == [v |-> Undefined, thrown |-> TRUE, log |-> <<>>, w |-> <<>>]

\* Whether the last of the results rs is a throw.
LastThrew(rs) == rs # <<>> /\ rs[Len(rs)].thrown

RECURSIVE LogsOf(_)
LogsOf(rs) == IF rs = <<>> THEN <<>> ELSE Head(rs).log \o LogsOf(Tail(rs))

RECURSIVE WritesOf(_)
WritesOf(rs) == IF rs = <<>> THEN <<>> ELSE Head(rs).w \o WritesOf(Tail(rs))

ValuesOf(rs) == AsSeq([i \in 1..Len(rs) |-> rs[i].v])

\* The result r of the call of deepResolve on `node`, with the call recorded.
Logged(r, node, seen, chain) ==
  IF r.thrown THEN r
  ELSE [r EXCEPT !.log = Append(@, [node |-> node, seen |-> seen, chain |-> chain,
                                    res |-> r.v])]

(***************************************************************************)
(* resolve-refs.ts                                                         *)
(***************************************************************************)
RECURSIVE WalkParts(_, _, _)
\* The loop of lookupRef over the pointer's segments.
WalkParts(parts, i, current) ==
  IF i > Len(parts) THEN current
  ELSE IF current = Null \/ current = Undefined \/ TypeOf(current) # "object"
       THEN Undefined
  ELSE WalkParts(parts, i + 1, Get(current, parts[i]))

lookupRef(ref, root) ==
  IF ~StartsWith(Chars(ref), <<"#", "/">>) THEN Undefined
  ELSE WalkParts(Split(Slice(Chars(ref), 2), "/"), 1, root)

\* `return { type: 'object' }`: what stands for a ref that is being resolved.
CyclePlaceholder(obj) == Obj(Fresh, <<<<"type", Str("object")>>>>)

\* A resolver that fills the node it is given instead of a new object.
NewResultInPlace(obj) == obj

\* `const result = {}`: the object the plain-object case fills.
NewResult(obj) == Obj(Fresh, <<>>)

\* `const merged = { type: 'object' }` of mergeAllOf.
NewMerged == Obj(Fresh, <<<<"type", Str("object")>>>>)

\* `const allProps = {}` of mergeAllOf.
NewAllProps == Obj(Fresh, <<>>)

\* target[k] = v for every entry <<k, v>> of `entries` whose key is not in
\* `skip`: the target after the assignments, and the writes they are.
RECURSIVE AssignEntries(_, _, _)
AssignEntries(target, entries, skip) ==
  IF entries = <<>> THEN [o |-> target, w |-> <<>>]
  ELSE IF Head(entries)[1] \in skip THEN AssignEntries(target, Tail(entries), skip)
  ELSE LET rest == AssignEntries(Put(target, Head(entries)[1], Head(entries)[2]),
                                 Tail(entries), skip)
       IN  [o |-> rest.o,
            w |-> WriteOf(target, Head(entries)[1], Head(entries)[2]) \o rest.w]

\* A spread that keeps every occurrence.
KeepAll(items, acc) == acc \o items

\* [...new Set(items)]: the first occurrence of each value, in order.
RECURSIVE Dedup(_, _)
Dedup(items, acc) ==
  IF items = <<>> THEN acc
  ELSE Dedup(Tail(items),
             IF \E i \in 1..Len(acc) : acc[i] = Head(items) THEN acc
             ELSE Append(acc, Head(items)))

\* The keys mergeAllOf does not copy onto the merged object.
MergeSkipKeys == {"properties", "required", "allOf"}

\* The body of mergeAllOf's loop for one resolved fragment, on the
\* accumulators acc = [merged, allProps, allRequired, w].
MergeFragment(acc, resolved) ==
  LET props == Get(resolved, "properties")
      req == Get(resolved, "required")
      p == IF ~Falsy(props) /\ TypeOf(props) = "object"
           THEN AssignEntries(acc.allProps, Entries(props), {})
           ELSE [o |-> acc.allProps, w |-> <<>>]
      g == AssignEntries(acc.merged, Entries(resolved), MergeSkipKeys)
  IN  [merged |-> g.o,
       allProps |-> p.o,
       allRequired |-> IF IsArray(req) THEN acc.allRequired \o req.a ELSE acc.allRequired,
       w |-> acc.w \o p.w \o g.w]

RECURSIVE MergeFragments(_, _)
MergeFragments(acc, fragments) ==
  IF fragments = <<>> THEN acc
  ELSE MergeFragments(MergeFragment(acc, Head(fragments)), Tail(fragments))

\* The end of mergeAllOf: properties and required are set when non-empty.
MergeFinish(acc) ==
  LET m1 == IF Len(Entries(acc.allProps)) > 0
            THEN Put(acc.merged, "properties", acc.allProps)
            ELSE acc.merged
      w1 == IF Len(Entries(acc.allProps)) > 0
            THEN WriteOf(acc.merged, "properties", acc.allProps)
            ELSE <<>>
      required == Arr(Fresh, Dedup(acc.allRequired, <<>>))
  IN  IF Len(acc.allRequired) > 0
      THEN [v |-> Put(m1, "required", required),
            w |-> acc.w \o w1 \o WriteOf(m1, "required", required)]
      ELSE [v |-> m1, w |-> acc.w \o w1]

RECURSIVE deepResolve(_, _, _, _, _)
RECURSIVE ResolveAll(_, _, _, _, _, _, _)
RECURSIVE ResolveFragments(_, _, _, _, _, _, _)
RECURSIVE ResolveAllShared(_, _, _, _, _, _, _)

\* The ref strings of the ref nodes among vals[1..n].
RefsAmong(vals, n) ==
  {Get(vals[j], "$ref").s :
     j \in {k \in 1..n : IsObj(vals[k]) /\ Get(vals[k], "$ref").k = "str"}}

\* A loop whose calls share one set of refs: the ref followed for an element
\* is still in the set when the elements after it are resolved.
ResolveAllShared(vals, lo, hi, root, seen, chain, depth) ==
  CASE lo > hi -> <<>>
    [] lo = hi ->
         <<deepResolve(vals[lo], root, seen \cup RefsAmong(vals, lo - 1), chain, depth + 1)>>
    [] OTHER ->
         LET left == ResolveAllShared(vals, lo, (lo + hi) \div 2, root, seen, chain, depth)
         IN  IF LastThrew(left) THEN left
             ELSE left \o ResolveAllShared(vals, (lo + hi) \div 2 + 1, hi,
                                           root, seen, chain, depth)

\* The calls deepResolve(vals[i], root, seen) that a loop over vals[lo..hi]
\* makes, in order; the loop ends at the first that throws.
ResolveAll(vals, lo, hi, root, seen, chain, depth) ==
  CASE lo > hi -> <<>>
    [] lo = hi -> <<deepResolve(vals[lo], root, seen, chain, depth + 1)>>
    [] OTHER ->
         LET left == ResolveAll(vals, lo, (lo + hi) \div 2, root, seen, chain, depth)
         IN  IF LastThrew(left) THEN left
             ELSE left \o ResolveAll(vals, (lo + hi) \div 2 + 1, hi, root, seen, chain, depth)

\* Whether the loop of mergeAllOf ends after the results rs: the last call
\* threw, or it returned null or undefined, whose .properties cannot be read.
FragmentStops(rs) ==
  rs # <<>> /\ (rs[Len(rs)].thrown \/ rs[Len(rs)].v = Null \/ rs[Len(rs)].v = Undefined)

\* The calls the loop of mergeAllOf makes over schemas[lo..hi].
ResolveFragments(schemas, lo, hi, root, seen, chain, depth) ==
  CASE lo > hi -> <<>>
    [] lo = hi -> <<deepResolve(schemas[lo], root, seen, chain, depth + 1)>>
    [] OTHER ->
         LET left == ResolveFragments(schemas, lo, (lo + hi) \div 2, root, seen, chain, depth)
         IN  IF FragmentStops(left) THEN left
             ELSE left \o ResolveFragments(schemas, (lo + hi) \div 2 + 1, hi,
                                           root, seen, chain, depth)

\* What a loop that threw leaves: the calls and the writes made before.
Interrupted(rs) ==
  [v |-> Undefined, thrown |-> TRUE, log |-> LogsOf(rs), w |-> WritesOf(rs)]

\* node.map((item) => deepResolve(item, root, seen)): a new array.
ResolveArray(node, root, seen, chain, depth) ==
  LET rs == ResolveAll(node.a, 1, Len(node.a), root, seen, chain, depth)
  IN  IF LastThrew(rs) THEN Interrupted(rs)
      ELSE [v |-> Arr(Fresh, ValuesOf(rs)), thrown |-> FALSE,
            log |-> LogsOf(rs), w |-> WritesOf(rs)]

\* The plain-object case: result[key] = deepResolve(value, root, seen) for
\* every entry of obj.
ResolveObject(obj, root, seen, chain, depth) ==
  LET entries == Entries(obj)
      rs == ResolveAll(AsSeq([i \in 1..Len(entries) |-> entries[i][2]]), 1, Len(entries),
                       root, seen, chain, depth)
  IN  IF LastThrew(rs) THEN Interrupted(rs)
      ELSE LET filled == AssignEntries(NewResult(obj),
                           AsSeq([i \in 1..Len(rs) |-> <<entries[i][1], rs[i].v>>]), {})
           IN  [v |-> filled.o, thrown |-> FALSE,
                log |-> LogsOf(rs), w |-> WritesOf(rs) \o filled.w]

mergeAllOf(schemas, root, seen, chain, depth) ==
  LET rs == ResolveFragments(schemas, 1, Len(schemas), root, seen, chain, depth)
  IN  IF FragmentStops(rs) THEN Interrupted(rs)
      ELSE LET fin == MergeFinish(MergeFragments(
                        [merged |-> NewMerged, allProps |-> NewAllProps,
                         allRequired |-> <<>>, w |-> <<>>],
                        ValuesOf(rs)))
           IN  [v |-> fin.v, thrown |-> FALSE, log |-> LogsOf(rs), w |-> WritesOf(rs) \o fin.w]

\* A resolver that follows a ref without asking whether it is being resolved.
ResolveRefNoCycleCheck(obj, ref, root, seen, chain, depth) ==
  IF Falsy(lookupRef(ref, root)) THEN Return(obj)
  ELSE deepResolve(lookupRef(ref, root), root, seen \cup {ref}, Append(chain, ref),
                   depth + 1)

\* The $ref case: the placeholder when the ref is being resolved, the node
\* itself when the lookup yields nothing, else the resolved target.
ResolveRef(obj, ref, root, seen, chain, depth) ==
  IF ref \in seen THEN Return(CyclePlaceholder(obj))
  ELSE IF Falsy(lookupRef(ref, root)) THEN Return(obj)
  ELSE deepResolve(lookupRef(ref, root), root, seen \cup {ref}, Append(chain, ref),
                   depth + 1)

\* depth counts the activations of deepResolve and mergeAllOf on the call
\* stack: beyond MaxStack the engine throws RangeError.  chain lists the refs
\* followed to reach the call, outermost first.
deepResolve(node, root, seen, chain, depth) ==
  CASE depth > MaxStack -> Throw
    [] depth <= MaxStack /\ TypeOf(node) # "object" -> Logged(Return(node), node, seen, chain)
    [] depth <= MaxStack /\ node = Null -> Logged(Return(node), node, seen, chain)
    [] depth <= MaxStack /\ IsArray(node) ->
         Logged(ResolveArray(node, root, seen, chain, depth), node, seen, chain)
    [] depth <= MaxStack /\ IsObj(node) /\ Get(node, "$ref").k = "str" ->
         Logged(ResolveRef(node, Get(node, "$ref").s, root, seen, chain, depth),
                node, seen, chain)
    [] depth <= MaxStack /\ IsObj(node) /\ Get(node, "$ref").k # "str"
         /\ IsArray(Get(node, "allOf")) ->
         Logged(mergeAllOf(Get(node, "allOf").a, root, seen, chain, depth + 1),
                node, seen, chain)
    [] OTHER -> Logged(ResolveObject(node, root, seen, chain, depth), node, seen, chain)

resolveRefs(s) == deepResolve(s, s, {}, <<>>, 1)

(***************************************************************************)
(* The caller's document after the writes a call made to it.               *)
(***************************************************************************)
RECURSIVE WriteAt(_, _)
WriteAt(v, wr) ==
  CASE v.k = "obj" /\ v.id = wr.id -> Put(v, wr.key, wr.val)
    [] v.k = "obj" /\ v.id # wr.id ->
         Obj(v.id, AsSeq([i \in 1..Len(v.e) |-> <<v.e[i][1], WriteAt(v.e[i][2], wr)>>]))
    [] v.k = "arr" -> Arr(v.id, AsSeq([i \in 1..Len(v.a) |-> WriteAt(v.a[i], wr)]))
    [] OTHER -> v

RECURSIVE ApplyWrites(_, _)
ApplyWrites(v, ws) ==
  IF ws = <<>> THEN v ELSE ApplyWrites(WriteAt(v, Head(ws)), Tail(ws))

(***************************************************************************)
(* The documents resolveRefs is run on: a root { d: { A, B }, x } whose    *)
(* definitions A and B and whose use x are drawn from the shapes below.    *)
(***************************************************************************)
TObj(entries) == Obj(Fresh, entries)
TArr(items) == Arr(Fresh, items)
TRef(s) == TObj(<<<<"$ref", Str(s)>>>>)
TType(t) == TObj(<<<<"type", Str(t)>>>>)

SchemasA ==
  { TType("string"),
    TObj(<<<<"type", Str("object")>>,
           <<"properties", TObj(<<<<"p", TRef(RefB)>>, <<"q", TRef(RefB)>>>>)>>,
           <<"required", TArr(<<Str("p")>>)>>>>),
    TObj(<<<<"type", Str("object")>>,
           <<"properties",
             TObj(<<<<"id", TType("string")>>,
                    <<"children",
                      TObj(<<<<"type", Str("array")>>, <<"items", TRef(RefA)>>>>)>>>>)>>>>),
    TObj(<<<<"allOf",
             TArr(<<TRef(RefB),
                    TObj(<<<<"properties", TObj(<<<<"q", TType("number")>>>>)>>,
                           <<"required", TArr(<<Str("q")>>)>>,
                           <<"description", Str("ext")>>>>)>>)>>>>),
    TObj(<<<<"oneOf", TArr(<<TRef(RefA), TRef(RefB)>>)>>>>),
    TObj(<<<<"anyOf", TArr(<<TRef(RefB), TType("string")>>)>>>>),
    TRef(RefB),
    TObj(<<<<"allOf", TArr(<<TRef(RefA), TType("string")>>)>>>>),
    TObj(<<<<"type", Str("array")>>, <<"items", TRef(RefA)>>>>) }

SchemasB ==
  { TType("number"),
    TObj(<<<<"type", Str("object")>>,
           <<"properties", TObj(<<<<"p", TRef(RefA)>>>>)>>,
           <<"required", TArr(<<Str("p")>>)>>>>),
    TRef(RefA),
    Null,
    Num(0),
    Bool(FALSE),
    Str(""),
    TObj(<<<<"allOf",
             TArr(<<TObj(<<<<"properties",
                             TObj(<<<<"p", TType("string")>>, <<"q", TType("string")>>>>)>>,
                           <<"required", TArr(<<Str("p"), Str("q")>>)>>,
                           <<"title", Str("t1")>>>>),
                    TObj(<<<<"properties", TObj(<<<<"p", TType("number")>>>>)>>,
                           <<"required", TArr(<<Str("p")>>)>>,
                           <<"title", Str("t2")>>>>)>>)>>>>),
    TRef(RefMissing) }

Uses ==
  { TRef(RefA),
    TRef(RefB),
    TRef(RefMissing),
    TRef(RefNoPrefix),
    TRef(RefIntoString),
    TRef(RefInherited),
    TObj(<<<<"oneOf", TArr(<<TRef(RefA), TRef(RefB)>>)>>>>),
    TObj(<<<<"anyOf", TArr(<<TRef(RefB), TRef(RefMissing)>>)>>>>),
    TObj(<<<<"allOf", TArr(<<TRef(RefA), TRef(RefB)>>)>>>>),
    TObj(<<<<"allOf", TArr(<<TRef(RefB), TRef(RefB)>>)>>>>),
    TObj(<<<<"title", Str("own")>>,
           <<"allOf", TArr(<<TRef(RefB)>>)>>,
           <<"oneOf", TArr(<<TRef(RefA), TType("string")>>)>>>>),
    TArr(<<TRef(RefA), TRef(RefA)>>) }

Document(a, b, x) ==
  Tag(TObj(<<<<"d", TObj(<<<<"A", a>>, <<"B", b>>>>)>>, <<"x", x>>>>), RootId)

Documents == {Document(a, b, x) : a \in SchemasA, b \in SchemasB, x \in Uses}

(***************************************************************************)
(* The state machine: a document is built, then resolveRefs is called.     *)
(***************************************************************************)
Init ==
  /\ doc \in Documents
  /\ spec = doc
  /\ status = "idle"
  /\ out = Undefined
  /\ calls = <<>>
  /\ history = <<>>

\* const resolved = resolveRefs(spec)
CallResolveRefs ==
  /\ status = "idle"
  /\ \E r \in {resolveRefs(spec)} :
         /\ spec' = ApplyWrites(spec, r.w)
         /\ calls' = r.log
         /\ out' = r.v
         /\ status' = IF r.thrown THEN "threw" ELSE "returned"
  /\ UNCHANGED <<doc, history>>

Next == CallResolveRefs

Spec == Init /\ [][Next]_vars

(***************************************************************************)
(* Notions the properties are stated with.                                 *)
(***************************************************************************)
Range(seq) == {seq[i] : i \in 1..Len(seq)}

\* A node that deepResolve treats as a reference: an object whose $ref is a
\* string.
IsRefNode(v) == IsObj(v) /\ HasOwn(v, "$ref") /\ Get(v, "$ref").k = "str"
RefOf(v) == Get(v, "$ref").s

\* The value a JSON pointer names in a document: the walk along the own
\* properties of objects and the elements of arrays.
RECURSIVE OwnWalk(_, _, _)
OwnWalk(parts, i, current) ==
  IF i > Len(parts) THEN [found |-> TRUE, v |-> current]
  ELSE IF current.k \in {"obj", "arr"} /\ HasOwn(current, parts[i])
       THEN OwnWalk(parts, i + 1, Entries(current)[IndexOfKey(Entries(current), parts[i])][2])
  ELSE [found |-> FALSE, v |-> Undefined]

IsInternal(ref) == StartsWith(Chars(ref), <<"#", "/">>)
Pointed(ref) == OwnWalk(Split(Slice(Chars(ref), 2), "/"), 1, doc)
NamesValue(ref) == IsInternal(ref) /\ Pointed(ref).found

Placeholder == Obj(Fresh, <<<<"type", Str("object")>>>>)

\* The call recorded at place i resolved `node` under the refs `chain`.
IsCallOn(i, node, chain) == calls[i].node = node /\ calls[i].chain = chain

\* The value that resolving `node` under `chain` returned.
ResolvedForm(node, chain) ==
  calls[CHOOSE i \in 1..Len(calls) : IsCallOn(i, node, chain)].res

WasResolved(node, chain) == \E i \in 1..Len(calls) : IsCallOn(i, node, chain)

\* A call on a ref that is on the chain of refs being resolved.
IsCycleCall(c) == IsRefNode(c.node) /\ RefOf(c.node) \in Range(c.chain)

(***************************************************************************)
(* C1: resolveRefs returns, without throwing, on every document, those     *)
(* whose refs form a cycle included (a schema that refers to itself        *)
(* directly, through properties, items, allOf, oneOf or anyOf, or through  *)
(* another schema); where a ref recurs on the chain of refs being resolved *)
(* the result is exactly { type: 'object' }.                               *)
(***************************************************************************)
C1_CycleSafe ==
  /\ status # "threw"
  /\ \A i \in 1..Len(calls) : IsCycleCall(calls[i]) => calls[i].res = Placeholder

C1_Witness ==
  /\ status = "returned"
  /\ \E i \in 1..Len(calls) : IsCycleCall(calls[i]) /\ Len(calls[i].chain) = 2

(***************************************************************************)
(* C2: resolveRefs leaves its input unchanged: the caller's document is    *)
(* the same before and after the call.                                     *)
(***************************************************************************)
C2_InputUnchanged == spec = doc

C2_Witness ==
  /\ status = "returned"
  /\ Strip(out) # Strip(doc)
  /\ \E i \in 1..Len(calls) : IsObj(calls[i].node) /\ IsArray(Get(calls[i].node, "allOf"))
  /\ \E i \in 1..Len(calls) : IsCycleCall(calls[i])

(***************************************************************************)
(* C3: a $ref whose pointer names an existing value of the document,       *)
(* whatever that value is, and whose string is not on the chain of refs    *)
(* being resolved, yields the resolved target and not the { $ref } object. *)
(***************************************************************************)
C3_RefInlined ==
  \A i \in 1..Len(calls) :
    LET c == calls[i] IN
    (IsRefNode(c.node) /\ RefOf(c.node) \notin Range(c.chain) /\ NamesValue(RefOf(c.node)))
    => /\ c.res # c.node
       /\ WasResolved(Pointed(RefOf(c.node)).v, Append(c.chain, RefOf(c.node)))
       /\ c.res = ResolvedForm(Pointed(RefOf(c.node)).v, Append(c.chain, RefOf(c.node)))

(***************************************************************************)
(* C4: a $ref whose string does not start with '#/', or whose pointer does *)
(* not lead to an existing value of the document, is returned as the       *)
(* original { $ref } object, and the call does not throw.                  *)
(***************************************************************************)
C4_DanglingRefKept ==
  /\ status # "threw"
  /\ \A i \in 1..Len(calls) :
       (IsRefNode(calls[i].node) /\ ~NamesValue(RefOf(calls[i].node)))
       => calls[i].res = calls[i].node

\* A node that deepResolve hands to mergeAllOf.
IsAllOfNode(v) == IsObj(v) /\ ~IsRefNode(v) /\ IsArray(Get(v, "allOf"))

\* The resolved fragments of the allOf node of call c, in order.
FragmentsOf(c) ==
  AsSeq([j \in 1..Len(Get(c.node, "allOf").a) |->
           ResolvedForm(Get(c.node, "allOf").a[j], c.chain)])

OwnKeys(v) == {Entries(v)[j][1] : j \in 1..Len(Entries(v))}
PropsOf(v) == IF IsObj(Get(v, "properties")) THEN OwnKeys(Get(v, "properties")) ELSE {}
RequiredOf(v) == IF IsArray(Get(v, "required")) THEN Range(Get(v, "required").a) ELSE {}

\* The last fragment that satisfies Has.
LastWith(frs, Has(_)) ==
  frs[CHOOSE j \in 1..Len(frs) : Has(frs[j]) /\ \A m \in (j + 1)..Len(frs) : ~Has(frs[m])]

(***************************************************************************)
(* C5: for a node with an allOf array the result is one object built from  *)
(* the resolved fragments: its properties are the union of the fragments'  *)
(* properties, the later fragment winning on a shared key; its required is *)
(* the union of the fragments' required lists with no duplicate; every     *)
(* other key has the value of the last fragment that has it, type being    *)
(* 'object' when no fragment has it; there is no allOf key.                *)
(***************************************************************************)
C5_AllOfMerged ==
  \A i \in 1..Len(calls) :
    IsAllOfNode(calls[i].node) =>
      LET c == calls[i]
          r == c.res
          frs == FragmentsOf(c)
          others == (UNION {OwnKeys(frs[j]) : j \in 1..Len(frs)}) \ MergeSkipKeys
      IN /\ \A j \in 1..Len(frs) : WasResolved(Get(c.node, "allOf").a[j], c.chain)
         /\ IsObj(r) /\ ~HasOwn(r, "allOf")
         /\ PropsOf(r) = UNION {PropsOf(frs[j]) : j \in 1..Len(frs)}
         /\ \A key \in PropsOf(r) :
              Get(Get(r, "properties"), key) =
                Get(Get(LastWith(frs, LAMBDA f : key \in PropsOf(f)), "properties"), key)
         /\ RequiredOf(r) = UNION {RequiredOf(frs[j]) : j \in 1..Len(frs)}
         /\ IsArray(Get(r, "required"))
              => Len(Get(r, "required").a) = Cardinality(RequiredOf(r))
         /\ OwnKeys(r) \ {"properties", "required"} = others \cup {"type"}
         /\ \A key \in others :
              Get(r, key) = Get(LastWith(frs, LAMBDA f : HasOwn(f, key)), key)
         /\ "type" \notin others => Get(r, "type") = Str("object")

\* An allOf whose fragments share a property key with different schemas,
\* repeat a required name and carry other keys has been merged.
C5_Witness ==
  /\ status = "returned"
  /\ \E i \in 1..Len(calls) :
       /\ IsAllOfNode(calls[i].node)
       /\ Len(FragmentsOf(calls[i])) >= 2
       /\ \E key \in PropsOf(calls[i].res) :
            /\ key \in PropsOf(FragmentsOf(calls[i])[1])
            /\ Get(Get(FragmentsOf(calls[i])[1], "properties"), key)
                 # Get(Get(calls[i].res, "properties"), key)
       /\ \E key \in RequiredOf(FragmentsOf(calls[i])[1]) :
            key \in RequiredOf(FragmentsOf(calls[i])[2])
       /\ HasOwn(calls[i].res, "title")

(***************************************************************************)
(* C6: for a node with a oneOf or anyOf array the result keeps that key    *)
(* with as many variants in the same order, each the resolved form of the  *)
(* variant at the same place.                                              *)
(***************************************************************************)
C6_UnionPreserved ==
  \A i \in 1..Len(calls) : \A key \in {"oneOf", "anyOf"} :
    (IsObj(calls[i].node) /\ IsArray(Get(calls[i].node, key))) =>
      LET c == calls[i]
          vs == Get(c.node, key).a
      IN /\ IsObj(c.res) /\ IsArray(Get(c.res, key))
         /\ Len(Get(c.res, key).a) = Len(vs)
         /\ \A j \in 1..Len(vs) :
              /\ WasResolved(vs[j], c.chain)
              /\ Get(c.res, key).a[j] = ResolvedForm(vs[j], c.chain)

(***************************************************************************)
(* Text.  A string of the program is a string of the model.  The functions *)
(* that look at the characters of a string work on its pieces: Pieces(s)   *)
(* cuts s where a character stands that some function of the program       *)
(* treats specially (& < > " \ and the line break), each such character    *)
(* being a piece of its own.  Every string of the model's inputs that      *)
(* holds such a character is in the table; any other string is one piece.  *)
(***************************************************************************)
TextAmp == "Fish & Chips"
TextTag == "<b>bold</b>"
TextQuote == "say \"hi\""
TextTwoParagraphs == "First line\nsecond line\n\nSecond paragraph"
TextScript == "<script>alert(1)</script>"
TextLearnScript == "Learn <script>alert(1)</script>"
TextLearnAmp == "Learn Fish & Chips"
TextLearnQuote == "Learn say \"hi\""

Pieces(s) ==
  CASE s = "" -> <<>>
    [] s = TextScript -> <<"<", "script", ">", "alert(1)", "<", "/script", ">">>
    [] s = TextLearnScript ->
         <<"Learn ", "<", "script", ">", "alert(1)", "<", "/script", ">">>
    [] s = TextLearnAmp -> <<"Learn Fish ", "&", " Chips">>
    [] s = TextLearnQuote -> <<"Learn say ", "\"", "hi", "\"">>
    [] s = TextAmp -> <<"Fish ", "&", " Chips">>
    [] s = TextTag -> <<"<", "b", ">", "bold", "<", "/b", ">">>
    [] s = TextQuote -> <<"say ", "\"", "hi", "\"">>
    [] s = TextTwoParagraphs ->
         <<"First line", "\n", "second line", "\n", "\n", "Second paragraph">>
    [] OTHER -> <<s>>

\* strs.join(sep)
RECURSIVE Join(_, _)
Join(strs, sep) ==
  CASE Len(strs) = 0 -> ""
    [] Len(strs) = 1 -> strs[1]
    [] OTHER ->
         LET half == Len(strs) \div 2
         IN  Join(SubSeq(strs, 1, half), sep) \o sep
               \o Join(SubSeq(strs, half + 1, Len(strs)), sep)

\* String(v), as a template literal or join renders a value.
RECURSIVE TemplateString(_)
TemplateString(v) ==
  CASE v.k = "str" -> v.s
    [] v.k = "num" -> ToString(v.n)
    [] v.k = "bool" -> IF v.b THEN "true" ELSE "false"
    [] v.k = "null" -> "null"
    [] v.k = "undefined" -> "undefined"
    [] v.k = "arr" -> Join(AsSeq([i \in 1..Len(v.a) |->
                             IF v.a[i].k \in {"null", "undefined"} THEN ""
                             ELSE TemplateString(v.a[i])]), ",")
    [] v.k = "obj" -> "[object Object]"
    [] OTHER -> "function"

\* The escapes JSON.stringify makes inside a string.
JsonEscape(piece) ==
  CASE piece = "\"" -> "\\\""
    [] piece = "\\" -> "\\\\"
    [] piece = "\n" -> "\\n"
    [] OTHER -> piece

\* JSON.stringify(v) of a value that is not undefined.
RECURSIVE JsonStringify(_)
JsonStringify(v) ==
  CASE v.k = "str" ->
         "\"" \o Join(AsSeq([i \in 1..Len(Pieces(v.s)) |-> JsonEscape(Pieces(v.s)[i])]), "")
              \o "\""
    [] v.k \in {"num", "bool", "null"} -> TemplateString(v)
    [] v.k = "arr" ->
         "[" \o Join(AsSeq([i \in 1..Len(v.a) |->
                       IF v.a[i].k \in {"undefined", "function"} THEN "null"
                       ELSE JsonStringify(v.a[i])]), ",") \o "]"
    [] v.k = "obj" ->
         "{" \o Join(AsSeq([i \in 1..Len(v.e) |->
                       "\"" \o v.e[i][1] \o "\":" \o JsonStringify(v.e[i][2])]), ",") \o "}"
    [] OTHER -> "undefined"

(***************************************************************************)
(* Schema graphs.  A property of a schema object holds a reference to an   *)
(* object; where two places hold the same object, or an object is reached  *)
(* from itself, the model writes Link(name), the reference to the object   *)
(* SchemaHeap holds under that name.                                       *)
(***************************************************************************)
Link(name) == [k |-> "link", to |-> name]

SchemaHeap(name) ==
  CASE name = "SelfProperty" ->
         Obj(<<"SelfProperty">>,
             <<<<"type", Str("object")>>,
               <<"properties",
                 Obj(Fresh, <<<<"id", Obj(Fresh, <<<<"type", Str("number")>>>>)>>,
                              <<"next", Link("SelfProperty")>>>>)>>>>)
    [] name = "SelfItems" ->
         Obj(<<"SelfItems">>,
             <<<<"type", Str("object")>>,
               <<"properties",
                 Obj(Fresh, <<<<"children",
                                Obj(Fresh, <<<<"type", Str("array")>>,
                                             <<"items", Link("SelfItems")>>>>)>>>>)>>>>)
    [] name = "SelfArray" ->
         Obj(<<"SelfArray">>, <<<<"type", Str("array")>>, <<"items", Link("SelfArray")>>>>)
    [] name = "SelfOneOf" ->
         Obj(<<"SelfOneOf">>,
             <<<<"oneOf", Arr(Fresh, <<Obj(Fresh, <<<<"type", Str("string")>>>>),
                                       Link("SelfOneOf")>>)>>>>)
    [] name = "SelfAnyOf" ->
         Obj(<<"SelfAnyOf">>,
             <<<<"anyOf", Arr(Fresh, <<Link("SelfAnyOf"),
                                       Obj(Fresh, <<<<"type", Str("null")>>>>)>>)>>>>)

\* The object a value refers to.
Target(v) == IF v.k = "link" THEN SchemaHeap(v.to) ELSE v

\* v.key and v?.key, the object the property refers to.
At(v, key) == Target(Get(v, key))
OptAt(v, key) == IF v.k \in {"null", "undefined"} THEN Undefined ELSE At(v, key)

\* a || b
OrElse(a, b) == IF Falsy(a) THEN b ELSE a

(***************************************************************************)
(* The result of a renderer: a string, or a throw; log holds one record    *)
(* per finished call: the schema, its depth argument, the number of        *)
(* descents from the root schema to it, and the string returned.           *)
(***************************************************************************)
Text(s) == [s |-> s, thrown |-> FALSE, log |-> <<>>]
Raise == [s |-> "", thrown |-> TRUE, log |-> <<>>]

Rendered(r, fn, schema, depth, level) ==
  IF r.thrown THEN r
  ELSE [r EXCEPT !.log = Append(@, [fn |-> fn, node |-> schema, depth |-> depth,
                                    level |-> level, res |-> r.s])]

AnyThrown(rs) == \E i \in 1..Len(rs) : rs[i].thrown
StringsOf(rs) == AsSeq([i \in 1..Len(rs) |-> rs[i].s])

\* The text pre \o r \o post around the result r of a nested call.
Around(pre, r, post) == IF r.thrown THEN r ELSE [r EXCEPT !.s = pre \o @ \o post]

\* The result made of the strings of the results rs, joined by sep.
Joined(pre, rs, sep, post) ==
  IF AnyThrown(rs) THEN Raise
  ELSE [s |-> pre \o Join(StringsOf(rs), sep) \o post, thrown |-> FALSE,
        log |-> LogsOf(rs)]

(***************************************************************************)
(* generators/compact-schema.ts                                            *)
(***************************************************************************)
\* schema.oneOf || schema.anyOf
Variants(schema) == OrElse(At(schema, "oneOf"), At(schema, "anyOf"))

\* schema.type === 'object' || schema.properties
IsObjectShaped(schema) ==
  Get(schema, "type") = Str("object") \/ ~Falsy(Get(schema, "properties"))

\* Object.entries(schema.properties || {})
PropertiesOf(schema) ==
  IF Falsy(Get(schema, "properties")) THEN <<>> ELSE Entries(At(schema, "properties"))

\* Whether key is in schema.required || [].
IsRequired(schema, key) ==
  /\ IsArray(Get(schema, "required"))
  /\ \E i \in 1..Len(Get(schema, "required").a) : Get(schema, "required").a[i] = Str(key)

\* `${value.items?.type || 'any'}[]`
ItemsTypeList(value) ==
  TemplateString(OrElse(OptAt(At(value, "items"), "type"), Str("any"))) \o "[]"

\* A suffix that names every type.
TypeSuffixAlways(type) == ":" \o TemplateString(OrElse(type, Str("string")))

\* The ':type' suffix of a scalar: none for 'string' and for no type.
TypeSuffix(type) ==
  IF OrElse(type, Str("string")) = Str("string") THEN ""
  ELSE ":" \o TemplateString(type)

\* Nested activations of a renderer the JavaScript call stack holds before
\* the engine throws RangeError (any bound above the depth of the deepest
\* terminating rendering of the model behaves alike).
MaxRenderStack == 12

RECURSIVE compactSchema(_, _, _)

\* The part compactSchema pushes for one property of an object schema.
CompactPart(key, req, value, depth, level) ==
  CASE value.k \in {"null", "undefined"} -> Raise
    [] IsObjectShaped(value) ->
         Around(key \o req \o ":", compactSchema(value, depth + 1, level + 1), "")
    [] Get(value, "type") = Str("array") /\ ~Falsy(OptAt(At(value, "items"), "properties")) ->
         Around(key \o req \o ":[",
                compactSchema(At(value, "items"), depth + 1, level + 1), "]")
    [] Get(value, "type") = Str("array") -> Text(key \o req \o ":" \o ItemsTypeList(value))
    [] OTHER -> Text(key \o req \o TypeSuffix(Get(value, "type")))

CompactBody(schema, depth, level) ==
  CASE Falsy(schema) \/ depth > 3 -> Text("...")
    [] ~Falsy(Variants(schema)) ->
         Joined("", AsSeq([i \in 1..Len(Variants(schema).a) |->
                            compactSchema(Target(Variants(schema).a[i]), depth, level + 1)]),
                " | ", "")
    [] IsObjectShaped(schema) ->
         Joined("{", AsSeq([i \in 1..Len(PropertiesOf(schema)) |->
                             CompactPart(PropertiesOf(schema)[i][1],
                                         IF IsRequired(schema, PropertiesOf(schema)[i][1])
                                         THEN "*" ELSE "",
                                         Target(PropertiesOf(schema)[i][2]), depth, level)]),
                ", ", "}")
    [] Get(schema, "type") = Str("array") /\ ~Falsy(OptAt(At(schema, "items"), "properties")) ->
         Around("[", compactSchema(At(schema, "items"), depth, level + 1), "]")
    [] Get(schema, "type") = Str("array") -> Text(ItemsTypeList(schema))
    [] OTHER -> Text(TemplateString(OrElse(Get(schema, "type"), Str("any"))))

\* compactSchema(schema, depth), called `level` descents below the first
\* call; the call stack overflows beyond MaxRenderStack nested calls.
compactSchema(schema, depth, level) ==
  IF level >= MaxRenderStack THEN Raise
  ELSE Rendered(CompactBody(schema, depth, level), "compactSchema", schema, depth, level)

\* '  '.repeat(depth)
RECURSIVE Indent(_)
Indent(depth) == IF depth <= 0 THEN "" ELSE "  " \o Indent(depth - 1)

\* The dash of ' — e.g. ', one character, written in ASCII.
EmDash == "-"

\* The ' — e.g. <json>' suffix of a scalar property that has an example.
ExampleSuffix(value) ==
  IF HasOwn(value, "example") /\ Get(value, "example") # Undefined
  THEN " " \o EmDash \o " e.g. " \o JsonStringify(Get(value, "example"))
  ELSE ""

RECURSIVE prettySchema(_, _, _)

\* The line prettySchema pushes for one property of an object schema.
PrettyLine(key, req, value, depth, level) ==
  CASE value.k \in {"null", "undefined"} -> Raise
    [] IsObjectShaped(value) ->
         Around(Indent(depth) \o "  \"" \o key \o "\": ",
                prettySchema(value, depth + 1, level + 1), req)
    [] Get(value, "type") = Str("array") /\ ~Falsy(OptAt(At(value, "items"), "properties")) ->
         Around(Indent(depth) \o "  \"" \o key \o "\": [",
                prettySchema(At(value, "items"), depth + 1, level + 1), "]" \o req)
    [] Get(value, "type") = Str("array") ->
         Text(Indent(depth) \o "  \"" \o key \o "\": " \o ItemsTypeList(value) \o req)
    [] OTHER ->
         Text(Indent(depth) \o "  \"" \o key \o "\": "
                \o TemplateString(OrElse(Get(value, "type"), Str("string")))
                \o ExampleSuffix(value) \o req)

PrettyBody(schema, depth, level) ==
  CASE Falsy(schema) \/ depth > 3 -> Text("...")
    [] ~Falsy(Variants(schema)) ->
         Joined("", AsSeq([i \in 1..Len(Variants(schema).a) |->
                            prettySchema(Target(Variants(schema).a[i]), depth, level + 1)]),
                " | ", "")
    [] IsObjectShaped(schema) /\ PropertiesOf(schema) = <<>> -> Text("{}")
    [] IsObjectShaped(schema) ->
         Joined("{\n", AsSeq([i \in 1..Len(PropertiesOf(schema)) |->
                               PrettyLine(PropertiesOf(schema)[i][1],
                                          IF IsRequired(schema, PropertiesOf(schema)[i][1])
                                          THEN " (required)" ELSE "",
                                          Target(PropertiesOf(schema)[i][2]), depth, level)]),
                "\n", "\n" \o Indent(depth) \o "}")
    [] Get(schema, "type") = Str("array") /\ ~Falsy(OptAt(At(schema, "items"), "properties")) ->
         Around("[", prettySchema(At(schema, "items"), depth, level + 1), "]")
    [] Get(schema, "type") = Str("array") -> Text(ItemsTypeList(schema))
    [] OTHER -> Text(TemplateString(OrElse(Get(schema, "type"), Str("any"))))

\* prettySchema(schema, depth), called `level` descents below the first call.
prettySchema(schema, depth, level) ==
  IF level >= MaxRenderStack THEN Raise
  ELSE Rendered(PrettyBody(schema, depth, level), "prettySchema", schema, depth, level)

\* formatSecurityCompact(security): 'NONE', 'JWT|KEY', 'JWT', 'KEY' or 'AUTH'.
\* A test that asks for the scheme in every entry.
EveryHas(security, scheme) ==
  \A i \in 1..Len(security.a) : Get(security.a[i], scheme) # Undefined

\* security.some((s) => s[scheme] !== undefined)
SomeHas(security, scheme) ==
  \E i \in 1..Len(security.a) : Get(security.a[i], scheme) # Undefined

formatSecurityCompact(security) ==
  CASE Falsy(security) \/ Get(security, "length") = Num(0) -> "NONE"
    [] SomeHas(security, "bearerAuth") /\ SomeHas(security, "apiKeyAuth") -> "JWT|KEY"
    [] SomeHas(security, "bearerAuth") -> "JWT"
    [] SomeHas(security, "apiKeyAuth") -> "KEY"
    [] OTHER -> "AUTH"

\* formatQueryCompact(params): '?name*:type' for each parameter.
formatQueryCompact(params) ==
  Join(AsSeq([i \in 1..Len(params) |->
                "?" \o TemplateString(Get(params[i], "name"))
                    \o (IF Falsy(Get(params[i], "required")) THEN "" ELSE "*")
                    \o TypeSuffix(OptAt(Get(params[i], "schema"), "type"))]), " ")

(***************************************************************************)
(* utils.ts                                                                *)
(***************************************************************************)
HTTP_METHODS == <<"get", "post", "put", "patch", "delete">>

\* text.replace(/ch/g, to) on the pieces of text, `to` given by its pieces.
RECURSIVE ReplaceAll(_, _, _)
ReplaceAll(pieces, ch, to) ==
  IF pieces = <<>> THEN <<>>
  ELSE (IF Head(pieces) = ch THEN to ELSE <<Head(pieces)>>) \o ReplaceAll(Tail(pieces), ch, to)

\* The four replacements with that of '&' made last.
EscapedAmpLast(text) ==
  ReplaceAll(ReplaceAll(ReplaceAll(ReplaceAll(Pieces(text),
      "<", <<"&", "lt;">>), ">", <<"&", "gt;">>), "\"", <<"&", "quot;">>),
      "&", <<"&", "amp;">>)

\* The pieces of text after the four replacements, in the order of the
\* source: '&', '<', '>', '"'.
EscapedPieces(text) ==
  ReplaceAll(ReplaceAll(ReplaceAll(ReplaceAll(Pieces(text),
      "&", <<"&", "amp;">>), "<", <<"&", "lt;">>), ">", <<"&", "gt;">>),
      "\"", <<"&", "quot;">>)

escapeHtml(text) == Join(EscapedPieces(text), "")

\* text.split(/\n\n/)[0]: the pieces before the first empty line.
RECURSIVE FirstParagraph(_)
FirstParagraph(pieces) ==
  IF pieces = <<>> THEN <<>>
  ELSE IF Len(pieces) >= 2 /\ pieces[1] = "\n" /\ pieces[2] = "\n" THEN <<>>
  ELSE <<Head(pieces)>> \o FirstParagraph(Tail(pieces))

\* s.trim() on pieces: the blank pieces at both ends are dropped.
RECURSIVE Trim(_)
Trim(pieces) ==
  CASE pieces = <<>> -> <<>>
    [] Head(pieces) \in {" ", "\n"} -> Trim(Tail(pieces))
    [] pieces[Len(pieces)] \in {" ", "\n"} -> Trim(SubSeq(pieces, 1, Len(pieces) - 1))
    [] OTHER -> pieces

extractFirstParagraph(text) ==
  Join(Trim(ReplaceAll(FirstParagraph(Pieces(text)), "\n", <<" ">>)), "")

\* formatSecurity(security): the labels of the recognized schemes, one per
\* entry that has the key, joined by ' or '.
RECURSIVE SecurityLabels(_)
SecurityLabels(entries) ==
  IF entries = <<>> THEN <<>>
  ELSE (IF Get(Head(entries), "bearerAuth") # Undefined
        THEN <<"Bearer Token (JWT)">> ELSE <<>>)
       \o (IF Get(Head(entries), "apiKeyAuth") # Undefined
           THEN <<"API Key (X-API-Key)">> ELSE <<>>)
       \o SecurityLabels(Tail(entries))

formatSecurity(security) ==
  CASE Falsy(security) \/ Get(security, "length") = Num(0) -> "None required"
    [] SecurityLabels(security.a) # <<>> -> Join(SecurityLabels(security.a), " or ")
    [] OTHER -> "Required"

\* parameters.filter((p) => p.in === location)
extractParamsByLocation(parameters, location) ==
  SelectSeq(parameters, LAMBDA p : Get(p, "in") = Str(location))

EmptyObject == Obj(Fresh, <<>>)
EmptyArray == Arr(Fresh, <<>>)

\* The concatenation of the sequences of seqs.
RECURSIVE Flatten(_)
Flatten(seqs) ==
  CASE Len(seqs) = 0 -> <<>>
    [] Len(seqs) = 1 -> seqs[1]
    [] OTHER -> Flatten(SubSeq(seqs, 1, Len(seqs) \div 2))
                \o Flatten(SubSeq(seqs, Len(seqs) \div 2 + 1, Len(seqs)))

\* for..of over v: the elements of an array.
Elements(v) == IF IsArray(v) THEN v.a ELSE <<>>

\* The entries of a path item whose key is an HTTP method.
MethodEntries(pathItem) ==
  SelectSeq(Entries(pathItem),
            LAMBDA m : \E j \in 1..Len(HTTP_METHODS) : HTTP_METHODS[j] = m[1])

\* The [path, method, operation] of the inner loop for one entry of paths.
OperationsAt(path) ==
  AsSeq([j \in 1..Len(MethodEntries(path[2])) |->
           [path |-> path[1], method |-> MethodEntries(path[2])[j][1],
            operation |-> MethodEntries(path[2])[j][2]]])

\* Object.entries(spec.paths || {})
PathEntries(s) == Entries(OrElse(Get(s, "paths"), EmptyObject))

\* The [path, method, operation] of the two loops of groupPathsByTag, in
\* order: the entries of each path item whose key is an HTTP method.
OperationsOf(s) == Flatten(AsSeq([i \in DOMAIN PathEntries(s) |-> OperationsAt(PathEntries(s)[i])]))

\* operation.tags with no default.
TagsNoDefault(operation) == Get(operation, "tags")

\* const tags = operation.tags || ['Other']
TagsOf(operation) == OrElse(Get(operation, "tags"), Arr(Fresh, <<Str("Other")>>))

\* operation.requestBody?.content?.[type]?.schema
BodySchema(operation, type) ==
  OptAt(OptAt(OptAt(Get(operation, "requestBody"), "content"), type), "schema")

\* The EndpointInfo groupPathsByTag pushes for an operation.
EndpointOf(o) ==
  [method |-> o.method,
   path |-> o.path,
   summary |-> OrElse(Get(o.operation, "summary"), Str("")),
   description |-> OrElse(Get(o.operation, "description"), Str("")),
   security |-> Get(o.operation, "security"),
   parameters |-> Elements(OrElse(Get(o.operation, "parameters"), EmptyArray)),
   body |-> OrElse(BodySchema(o.operation, "application/json"),
                   OrElse(BodySchema(o.operation, "multipart/form-data"), Null)),
   responses |-> OrElse(Get(o.operation, "responses"), EmptyObject)]

\* The pushes of the loop over the tags of one operation.
PushesAt(o, tags) ==
  AsSeq([j \in DOMAIN tags |-> [tag |-> TemplateString(tags[j]), ep |-> EndpointOf(o)]])

\* The pushes of the loops over `operations` in order: the tag and the
\* endpoint.
PushesOf(operations) ==
  Flatten(AsSeq([i \in DOMAIN operations |->
                   PushesAt(operations[i], Elements(TagsOf(operations[i].operation)))]))

Pushes(s) == PushesOf(OperationsOf(s))

\* Whether the loops over `entries` and `operations` throw before a push:
\* Object.entries of a path item that is null or undefined, a property of
\* an operation that is, and for..of over tags that are not a list.
LoopThrows(entries, operations) ==
  \/ \E i \in DOMAIN entries : entries[i][2].k \in {"null", "undefined"}
  \/ \E i \in DOMAIN operations :
       \/ operations[i].operation.k \in {"null", "undefined"}
       \/ ~IsArray(TagsOf(operations[i].operation))

\* Whether a push throws: groups[tag] of an inherited member has no push.
PushThrows(pushes) == \E i \in DOMAIN pushes : pushes[i].tag \in InheritedKeys

\* Where groupPathsByTag throws.
GroupingThrows(s) ==
  IF LoopThrows(PathEntries(s), OperationsOf(s)) THEN TRUE ELSE PushThrows(Pushes(s))

\* The endpoints pushed under `tag`, in push order.
EndpointsOf(mine) == AsSeq([j \in DOMAIN mine |-> mine[j].ep])

\* The groups of `pushes` under the tags `tags`.
GroupsOf(pushes, tags) ==
  AsSeq([i \in DOMAIN tags |->
           [tag |-> tags[i],
            endpoints |-> EndpointsOf(SelectSeq(pushes, LAMBDA q : q.tag = tags[i]))]])

\* The tags of `pushes` in the order they were first pushed.
TagsPushed(pushes) == Dedup(AsSeq([i \in DOMAIN pushes |-> pushes[i].tag]), <<>>)

\* The largest array index among the keys of the model's objects.
MaxIndex == 9

\* The array index a key is the canonical decimal form of, -1 if it is none.
ArrayIndex(key) ==
  IF \E n \in 0..MaxIndex : ToString(n) = key
  THEN CHOOSE n \in 0..MaxIndex : ToString(n) = key
  ELSE -1

\* The own keys of an object in the order Object.keys, Object.values and
\* Object.entries give them: the array indices ascending, then the other
\* strings in the order they were added.
OwnPropertyKeys(keys) ==
  SortSeq(SelectSeq(keys, LAMBDA k : ArrayIndex(k) >= 0),
          LAMBDA a, b : ArrayIndex(a) < ArrayIndex(b))
  \o SelectSeq(keys, LAMBDA k : ArrayIndex(k) < 0)

Grouped(pushes) == GroupsOf(pushes, OwnPropertyKeys(TagsPushed(pushes)))

\* groupPathsByTag(spec): the groups in the order their tags were first
\* pushed, each with its endpoints in push order.
groupPathsByTag(s) == Grouped(Pushes(s))

\* tagGroups[tagName]: the endpoints of the group, none if there is no group.
GroupOf(tagGroups, tagName) ==
  IF \E i \in 1..Len(tagGroups) : tagGroups[i].tag = tagName
  THEN tagGroups[CHOOSE i \in 1..Len(tagGroups) : tagGroups[i].tag = tagName].endpoints
  ELSE <<>>

(***************************************************************************)
(* What the three generators compute alike.                                *)
(***************************************************************************)
\* options.title || spec.info?.title || 'API'
ProjectName(s, options) ==
  TemplateString(OrElse(Get(options, "title"),
                        OrElse(OptAt(Get(s, "info"), "title"), Str("API"))))

\* options.baseUrl || spec.servers?.[0]?.url || ''
BaseUrl(s, options) ==
  TemplateString(OrElse(Get(options, "baseUrl"),
                        OrElse(OptAt(OptAt(Get(s, "servers"), "0"), "url"), Str(""))))

\* spec.info?.description || '' and spec.info?.version || ''
InfoText(s, key) == TemplateString(OrElse(OptAt(Get(s, "info"), key), Str("")))

\* spec.tags || []
DeclaredTags(s) == Elements(OrElse(Get(s, "tags"), EmptyArray))

\* tags.map((t) => t.name), each name as the key it is used as.
NamesOf(tags) == AsSeq([i \in DOMAIN tags |-> TemplateString(Get(tags[i], "name"))])

\* (spec.tags || []).map((t) => t.name)
TagOrder(s) == NamesOf(DeclaredTags(s))

\* tagDef?.description of the first of `hits`, '' if falsy.
DescriptionOf(hits) ==
  IF hits = <<>> THEN ""
  ELSE IF Falsy(Get(hits[1], "description")) THEN ""
  ELSE TemplateString(Get(hits[1], "description"))

\* spec.tags?.find((t) => t.name === tagName)?.description, '' if falsy.
TagDescription(s, tagName) ==
  DescriptionOf(SelectSeq(DeclaredTags(s), LAMBDA t : Get(t, "name") = Str(tagName)))

\* spec.components?.securitySchemes
SecuritySchemes(s) == OptAt(Get(s, "components"), "securitySchemes")

\* Object.keys(tagGroups)
GroupTags(tagGroups) == AsSeq([i \in DOMAIN tagGroups |-> tagGroups[i].tag])

\* The keys that are not among `declared`, in order.
Without(keys, declared) ==
  SelectSeq(keys, LAMBDA t : \A i \in DOMAIN declared : declared[i] # t)

\* The tags of the groups that spec.tags does not declare, in group order.
UndeclaredTags(s, tagGroups) == Without(GroupTags(tagGroups), TagOrder(s))

\* method.toUpperCase() of an HTTP method.
ToUpperCase(method) ==
  CASE method = "get" -> "GET"
    [] method = "post" -> "POST"
    [] method = "put" -> "PUT"
    [] method = "patch" -> "PATCH"
    [] method = "delete" -> "DELETE"

\* Whether one of `tags` is null or undefined, so that t.name throws.
HasNullish(tags) == \E i \in DOMAIN tags : tags[i].k \in {"null", "undefined"}

\* Whether one of `names` is an inherited member of tagGroups, which for..of
\* cannot iterate.
HasInherited(names) == \E i \in DOMAIN names : names[i] \in InheritedKeys

\* Where the setup of a generator throws: the grouping, t.name of a tag that
\* is null or undefined, and for..of over an inherited member of tagGroups.
SetupThrows(s) ==
  \/ GroupingThrows(s)
  \/ HasNullish(DeclaredTags(s))
  \/ HasInherited(TagOrder(s))

\* The result of a generator: its lines, or a throw.
Lines(ls) == [lines |-> ls, thrown |-> FALSE]
Thrown == [lines |-> <<>>, thrown |-> TRUE]

\* The results rs of rendering schemas, as lines: a throw if one threw.
AllLines(rs) ==
  IF \E i \in 1..Len(rs) : rs[i].thrown THEN Thrown
  ELSE Lines(Flatten(AsSeq([i \in 1..Len(rs) |-> rs[i].lines])))

\* (res as any).content?.['application/json']?.schema || res
ResponseSchema(res) ==
  OrElse(OptAt(OptAt(Get(res, "content"), "application/json"), "schema"), res)

\* resSchema.type || resSchema.properties
HasShape(schema) == ~Falsy(Get(schema, "type")) \/ ~Falsy(Get(schema, "properties"))

(***************************************************************************)
(* generators/llms-txt.ts                                                  *)
(***************************************************************************)
\* A lines array that outlives the call, holding what the call before it
\* pushed.
SharedLines == IF history = <<>> THEN <<>> ELSE history[Len(history)].llmsLines

\* const lines: string[] = []
NewLines == <<>>

\* The backquote of the source's texts, which a string of the model cannot
\* hold, is written as an apostrophe.
Backquote == "'"

\* The ' (description)' of a path parameter.
PathParamToken(p) ==
  ":" \o TemplateString(Get(p, "name"))
      \o (IF Falsy(Get(p, "description")) THEN ""
          ELSE " (" \o TemplateString(Get(p, "description")) \o ")")

\* The line `label` + the rendered schema between backquotes: a throw if
\* the rendering threw.
SchemaLine(label, r) == IF r.thrown THEN Thrown ELSE Lines(<<label \o Backquote \o r.s \o Backquote>>)

\* The 'Path:' line of an endpoint, none without path parameters.
PathLine(pathParams) ==
  IF pathParams = <<>> THEN <<>>
  ELSE <<"Path: " \o Join(AsSeq([i \in DOMAIN pathParams |->
                                   PathParamToken(pathParams[i])]), " ")>>

\* The 'Query:' line of an endpoint, none without query parameters.
QueryLine(queryParams) ==
  IF queryParams = <<>> THEN <<>> ELSE <<"Query: " \o formatQueryCompact(queryParams)>>

\* The 'Body:' line of an endpoint, none without a body.
BodyLine(body) ==
  IF Falsy(body) THEN Lines(<<>>)
  ELSE SchemaLine("Body: ", compactSchema(Target(body), 0, 0))

\* The '200:' line of a response schema, none when it has no shape.
ResponseLine(resSchema) ==
  IF HasShape(resSchema) THEN SchemaLine("200: ", compactSchema(resSchema, 0, 0))
  ELSE Lines(<<>>)

\* The '200:' line of an endpoint, none without a 200 response.
OkLine(res200) ==
  IF Falsy(res200) THEN Lines(<<>>) ELSE ResponseLine(ResponseSchema(res200))

\* The lines processTag pushes for one endpoint.
LlmsEndpoint(ep) ==
  AllLines(<<
    Lines(<<"### " \o ToUpperCase(ep.method) \o " " \o ep.path \o " - "
              \o TemplateString(ep.summary) \o " | "
              \o formatSecurityCompact(ep.security)>>),
    Lines(PathLine(extractParamsByLocation(ep.parameters, "path"))),
    Lines(QueryLine(extractParamsByLocation(ep.parameters, "query"))),
    BodyLine(ep.body),
    OkLine(Get(ep.responses, "200")),
    Lines(<<"">>) >>)

\* The section of a tag with the endpoints `endpoints`: none if there are
\* none.
LlmsSection(description, tagName, endpoints) ==
  IF endpoints = <<>> THEN Lines(<<>>)
  ELSE AllLines(<<Lines(<<"## " \o tagName>>
                        \o (IF description = "" THEN <<>> ELSE <<description>>)
                        \o <<"">>)>>
                \o AsSeq([i \in DOMAIN endpoints |-> LlmsEndpoint(endpoints[i])]))

\* processTag(tagName)
LlmsTag(s, tagGroups, tagName) ==
  LlmsSection(TagDescription(s, tagName), tagName, GroupOf(tagGroups, tagName))

LlmsHeaderLines(projectName, description, baseUrl) ==
  <<"# " \o projectName, "">>
  \o (IF description = "" THEN <<>> ELSE <<"> " \o description, "">>)
  \o <<"Base: " \o baseUrl,
       "Docs: [HTML](" \o baseUrl \o "/) | [OpenAPI JSON](" \o baseUrl \o "/openapi.json)",
       "">>

LlmsHeader(s, options) ==
  LlmsHeaderLines(ProjectName(s, options),
                  extractFirstParagraph(InfoText(s, "description")),
                  BaseUrl(s, options))

LlmsAuthLines(securitySchemes) ==
  IF Falsy(securitySchemes) THEN <<>>
  ELSE <<"## Auth Methods">>
       \o (IF Falsy(Get(securitySchemes, "bearerAuth")) THEN <<>>
           ELSE <<"- JWT: 'Authorization: Bearer <token>' via POST /auth/login">>)
       \o (IF Falsy(Get(securitySchemes, "apiKeyAuth")) THEN <<>>
           ELSE <<"- KEY: 'X-API-Key: sk_<appId>_<hex>' via POST /api-keys">>)
       \o <<"">>

LlmsAuth(s) == LlmsAuthLines(SecuritySchemes(s))

LlmsConventions ==
  << "## Conventions",
     "- Auth: JWT = Bearer token, KEY = API Key, JWT|KEY = either, NONE = no auth",
     "- '*' after field name = required, all fields string unless noted with ':type'",
     "- Common errors: 400/401/404 return '{success:false, error}'",
     "", "---", "" >>

\* The header, then the section of each of `sections` in order.
LlmsSections(s, options, tagGroups, sections) ==
  AllLines(<<Lines(NewLines \o LlmsHeader(s, options) \o LlmsAuth(s) \o LlmsConventions)>>
           \o AsSeq([i \in DOMAIN sections |-> LlmsTag(s, tagGroups, sections[i])]))

\* The declared tags, then the tags of the groups that are not declared.
LlmsDocument(s, options, tagGroups) ==
  LlmsSections(s, options, tagGroups, TagOrder(s) \o UndeclaredTags(s, tagGroups))

\* generateLlmsTxt(spec, options): the lines it joins with a line break.
generateLlmsTxt(s, options) ==
  IF SetupThrows(s) THEN Thrown ELSE LlmsDocument(s, options, groupPathsByTag(s))

(***************************************************************************)
(* generators/human-docs.ts                                                *)
(***************************************************************************)
\* name.toLowerCase() by pieces, a run of white space being one piece " ".
LowerPieces(name) ==
  CASE name = "Items" -> <<"items">>
    [] name = "Misc" -> <<"misc">>
    [] name = "Other" -> <<"other">>
    [] name = "User Admin" -> <<"user", " ", "admin">>
    [] name = "undefined" -> <<"undefined">>

\* tagName.toLowerCase().replace(/\s+/g, '-')
Anchor(tagName) == Join(ReplaceAll(LowerPieces(tagName), " ", <<"-">>), "")

HumanHeaderLines(projectName, version, baseUrl, description) ==
  <<"# " \o projectName, "",
    "**Version:** " \o version \o "  ",
    "**Base URL:** " \o baseUrl, "">>
  \o (IF description = "" THEN <<>> ELSE <<description, "">>)

HumanHeader(s, options) ==
  HumanHeaderLines(ProjectName(s, options), InfoText(s, "version"), BaseUrl(s, options),
                   InfoText(s, "description"))

\* The entry of a declared tag in the table of contents, none if the tag
\* has no endpoints.
ContentsEntry(tagName, endpoints) ==
  IF endpoints = <<>> THEN <<>>
  ELSE <<"- [" \o tagName \o "](#" \o Anchor(tagName) \o ")">>

ContentsEntries(tagGroups, tagOrder) ==
  Flatten(AsSeq([i \in DOMAIN tagOrder |->
                   ContentsEntry(tagOrder[i], GroupOf(tagGroups, tagOrder[i]))]))

\* The table of contents: Authentication, then each declared tag that has
\* endpoints.
HumanContents(s, tagGroups) ==
  <<"## Table of Contents", "", "- [Authentication](#authentication)">>
  \o ContentsEntries(tagGroups, TagOrder(s))
  \o <<"">>

\* The fence of a code block, three backquotes.
Fence == Backquote \o Backquote \o Backquote

HumanAuthLines(securitySchemes) ==
  IF Falsy(securitySchemes) THEN <<>>
  ELSE <<"---", "", "## Authentication", "">>
       \o (IF Falsy(Get(securitySchemes, "bearerAuth")) THEN <<>>
           ELSE <<"### JWT Bearer Token", "", "Used for admin panel access.", "",
                  Fence, "Authorization: Bearer <token>", Fence, "",
                  "Obtain a token via 'POST /auth/login' with email and password.", "">>)
       \o (IF Falsy(Get(securitySchemes, "apiKeyAuth")) THEN <<>>
           ELSE <<"### API Key", "", "Used for backend-to-backend authentication.", "",
                  Fence, "X-API-Key: sk_<appId>_<randomhex>", Fence, "",
                  "Create keys via 'POST /api-keys'. Each key is scoped to a specific app.",
                  "">>)

HumanAuth(s) == HumanAuthLines(SecuritySchemes(s))

\* p.schema?.type || 'string'
ParamType(p) == TemplateString(OrElse(OptAt(Get(p, "schema"), "type"), Str("string")))

HumanPathParams(params) ==
  IF params = <<>> THEN <<>>
  ELSE <<"**Path Parameters:**", "", "| Parameter | Type | Description |",
         "|-----------|------|-------------|">>
       \o AsSeq([i \in 1..Len(params) |->
             "| '" \o TemplateString(Get(params[i], "name")) \o "' | " \o ParamType(params[i])
               \o " | " \o TemplateString(OrElse(Get(params[i], "description"), Str("-")))
               \o " |"])
       \o <<"">>

HumanQueryParams(params) ==
  IF params = <<>> THEN <<>>
  ELSE <<"**Query Parameters:**", "", "| Parameter | Type | Required | Description |",
         "|-----------|------|----------|-------------|">>
       \o AsSeq([i \in 1..Len(params) |->
             "| '" \o TemplateString(Get(params[i], "name")) \o "' | " \o ParamType(params[i])
               \o " | " \o (IF Falsy(Get(params[i], "required")) THEN "No" ELSE "Yes")
               \o " | "
               \o TemplateString(OrElse(Get(params[i], "description"),
                                        OrElse(OptAt(Get(params[i], "schema"), "description"),
                                               Str("-"))))
               \o " |"])
       \o <<"">>

\* The block of a pretty-printed schema under a heading.
HumanSchema(heading, r) ==
  IF r.thrown THEN Thrown ELSE Lines(<<heading, "", Fence \o "json", r.s, Fence, "">>)

\* The block of a response with the schema resSchema: none when the schema
\* has no shape.
ResponseBlock(statusCode, resSchema) ==
  IF HasShape(resSchema)
  THEN HumanSchema("**Response " \o statusCode \o ":**", prettySchema(resSchema, 0, 0))
  ELSE Lines(<<>>)

\* The block of one entry of ep.responses; res.content of a response that
\* is null or undefined throws.
HumanResponse(entry) ==
  IF entry[2].k \in {"null", "undefined"} THEN Thrown
  ELSE ResponseBlock(entry[1], ResponseSchema(entry[2]))

HumanResponses(entries) == AsSeq([i \in DOMAIN entries |-> HumanResponse(entries[i])])

\* The block of the request body, none without a body.
HumanBody(body) ==
  IF Falsy(body) THEN Lines(<<>>)
  ELSE HumanSchema("**Request Body:**", prettySchema(Target(body), 0, 0))

\* '### METHOD path' and the summary of an endpoint.
HumanHeading(ep) ==
  <<"### '" \o ToUpperCase(ep.method) \o "' " \o ep.path, "">>
  \o (IF Falsy(ep.summary) THEN <<>> ELSE <<"**" \o TemplateString(ep.summary) \o "**", "">>)

HumanAuthLine(ep) == <<"**Auth:** " \o formatSecurity(ep.security), "">>

\* The lines renderEndpoints pushes for one endpoint.
HumanEndpoint(ep) ==
  AllLines(<<
    Lines(HumanHeading(ep)
          \o (IF Falsy(ep.description) \/ ep.description = ep.summary THEN <<>>
              ELSE <<TemplateString(ep.description), "">>)
          \o HumanAuthLine(ep)
          \o HumanPathParams(extractParamsByLocation(ep.parameters, "path"))
          \o HumanQueryParams(extractParamsByLocation(ep.parameters, "query"))),
    HumanBody(ep.body)>>
    \o HumanResponses(Entries(ep.responses)))

\* The section of a tag with the endpoints `endpoints`: none if there are
\* none.
HumanSection(description, tagName, endpoints) ==
  IF endpoints = <<>> THEN Lines(<<>>)
  ELSE AllLines(<<Lines(<<"---", "", "## " \o tagName, "">>
                        \o (IF description = "" THEN <<>> ELSE <<description, "">>))>>
                \o AsSeq([i \in DOMAIN endpoints |-> HumanEndpoint(endpoints[i])]))

\* renderEndpoints(tagName)
HumanTag(s, tagGroups, tagName) ==
  HumanSection(TagDescription(s, tagName), tagName, GroupOf(tagGroups, tagName))

\* The section of an undeclared tag with the endpoints `endpoints`.
UndeclaredSection(tag, endpoints) ==
  IF endpoints = <<>> THEN <<>>
  ELSE <<"---", "", "## " \o tag, "">>
       \o Flatten(AsSeq([i \in DOMAIN endpoints |->
             HumanHeading(endpoints[i]) \o HumanAuthLine(endpoints[i])]))

\* The section of a group whose tag spec.tags does not declare.
HumanUndeclaredTag(tagGroups, tag) == UndeclaredSection(tag, GroupOf(tagGroups, tag))

\* The header, the sections of the declared tags, then those of the groups
\* that are not declared.
HumanSections(s, options, tagGroups, tagOrder, undeclared) ==
  AllLines(<<Lines(HumanHeader(s, options) \o HumanContents(s, tagGroups) \o HumanAuth(s))>>
           \o AsSeq([i \in DOMAIN tagOrder |-> HumanTag(s, tagGroups, tagOrder[i])])
           \o <<Lines(Flatten(AsSeq([i \in DOMAIN undeclared |->
                         HumanUndeclaredTag(tagGroups, undeclared[i])])))>>)

HumanDocument(s, options, tagGroups) ==
  HumanSections(s, options, tagGroups, TagOrder(s), UndeclaredTags(s, tagGroups))

\* generateHumanDocs(spec, options): the lines it joins with a line break.
generateHumanDocs(s, options) ==
  IF SetupThrows(s) THEN Thrown ELSE HumanDocument(s, options, groupPathsByTag(s))

(***************************************************************************)
(* generators/html-landing.ts.  The page is given by its lines; the static *)
(* style sheet and the paths of the logo, which no input reaches, are      *)
(* written as one line each.                                               *)
(***************************************************************************)
LandingStyle == "  <style>/* static style sheet */</style>"

LogoSvg(size) ==
  "<svg width=\"" \o ToString(size) \o "\" height=\"" \o ToString(size) \o "\"></svg>"

\* let totalEndpoints: the sum of the lengths of the groups.
RECURSIVE TotalEndpoints(_)
TotalEndpoints(tagGroups) ==
  IF tagGroups = <<>> THEN 0
  ELSE Len(Head(tagGroups).endpoints) + TotalEndpoints(Tail(tagGroups))

\* The declared tags that have endpoints, in the order of spec.tags.
ListedTags(s, tagGroups) ==
  SelectSeq(TagOrder(s), LAMBDA tag : GroupOf(tagGroups, tag) # <<>>)

\* The card of a declared tag that has endpoints.
CategoryCard(s, tagGroups, tag) ==
  "<div class=\"card\"><h3>" \o escapeHtml(tag) \o "</h3><p>"
    \o escapeHtml(TagDescription(s, tag)) \o "</p><span class=\"badge\">"
    \o ToString(Len(GroupOf(tagGroups, tag))) \o " endpoints</span></div>"

\* The row of an endpoint in the table of its tag.
EndpointRow(ep) ==
  "          <tr><td><code>" \o ToUpperCase(ep.method) \o "</code></td><td><code>"
    \o escapeHtml(ep.path) \o "</code></td><td>" \o escapeHtml(TemplateString(ep.summary))
    \o "</td><td>" \o escapeHtml(formatSecurity(ep.security)) \o "</td></tr>"

\* The section of a declared tag with the endpoints `endpoints`.
SectionLines(tagName, description, endpoints) ==
  <<"    <section>",
    "      <h2>" \o escapeHtml(tagName) \o "</h2>",
    "      " \o (IF description = "" THEN "" ELSE "<p>" \o escapeHtml(description) \o "</p>"),
    "      <table>",
    "        <thead><tr><th>Method</th><th>Path</th><th>Description</th><th>Auth</th></tr></thead>",
    "        <tbody>">>
  \o AsSeq([i \in DOMAIN endpoints |-> EndpointRow(endpoints[i])])
  \o <<"        </tbody>", "      </table>", "    </section>">>

\* The section of a declared tag that has endpoints.
EndpointSection(s, tagGroups, tagName) ==
  SectionLines(tagName, TagDescription(s, tagName), GroupOf(tagGroups, tagName))

LandingAuthLines(securitySchemes) ==
  IF Falsy(securitySchemes) THEN <<"      ">>
  ELSE <<"      ",
         "    <section>",
         "      <h2>Authentication</h2>",
         "      <p>This API supports the following authentication methods:</p>",
         "      <table>",
         "        <thead><tr><th>Method</th><th>Header</th><th>Use case</th></tr></thead>",
         "        <tbody>",
         "          " \o (IF Falsy(Get(securitySchemes, "bearerAuth")) THEN ""
                        ELSE "<tr><td><strong>JWT Bearer Token</strong></td><td><code>Authorization: Bearer &lt;token&gt;</code></td><td>Admin panel access. Obtain via POST /auth/login.</td></tr>"),
         "          " \o (IF Falsy(Get(securitySchemes, "apiKeyAuth")) THEN ""
                        ELSE "<tr><td><strong>API Key</strong></td><td><code>X-API-Key: sk_&lt;appId&gt;_&lt;hex&gt;</code></td><td>Backend-to-backend. Create via POST /api-keys.</td></tr>"),
         "        </tbody>",
         "      </table>",
         "    </section>">>

LandingAuth(s) == LandingAuthLines(SecuritySchemes(s))

\* `Learn ${baseUrl || 'this API'}`
DefaultPrompt(baseUrl) == "Learn " \o (IF baseUrl = "" THEN "this API" ELSE baseUrl)

\* promptText || the default, escaped.
PromptOf(promptText, baseUrl) ==
  escapeHtml(IF Falsy(promptText) THEN DefaultPrompt(baseUrl) ELSE TemplateString(promptText))

\* options.landing?.promptText || `Learn ${baseUrl || 'this API'}`, escaped.
PromptText(s, options) ==
  PromptOf(OptAt(Get(options, "landing"), "promptText"), BaseUrl(s, options))

\* options.landing?.showPrompt !== false, and showPoweredBy alike.
Shows(options, key) == OptAt(Get(options, "landing"), key) # Bool(FALSE)

LandingHead(s, options) ==
  <<"<!DOCTYPE html>", "<html lang=\"en\">", "<head>",
    "  <meta charset=\"utf-8\">",
    "  <meta name=\"viewport\" content=\"width=device-width, initial-scale=1\">",
    "  <title>" \o escapeHtml(ProjectName(s, options)) \o "</title>",
    "  <meta name=\"description\" content=\""
      \o escapeHtml(extractFirstParagraph(InfoText(s, "description"))) \o "\">",
    "  <link rel=\"alternate\" type=\"text/plain\" href=\"/llms.txt\" title=\"LLM-optimized API reference\">",
    LandingStyle, "</head>", "<body>">>
  \o (IF Shows(options, "showPoweredBy")
      THEN <<"  <div class=\"brand\">",
             "    <a href=\"https://swagent.dev\" target=\"_blank\" rel=\"noopener\">"
               \o LogoSvg(18) \o " swagent</a>",
             "  </div>">>
      ELSE <<"  ">>)

LandingHero(s, options) ==
  <<"  <main>", "    <div class=\"hero\">",
    "      <span class=\"hero-label\">AI-First API Documentation</span>",
    "      <h1>" \o escapeHtml(ProjectName(s, options)) \o "</h1>",
    "      <p>" \o escapeHtml(extractFirstParagraph(InfoText(s, "description"))) \o "</p>">>
  \o (IF Shows(options, "showPrompt")
      THEN <<"      <div class=\"hero-prompt\">",
             "        <strong>&gt;</strong> Tell your AI agent: <span class=\"accent\">\""
               \o PromptText(s, options) \o "\"</span>",
             "      </div>">>
      ELSE <<"      ">>)
  \o <<"    </div>", "">>

LandingStats(s, tagGroups) ==
  <<"    <div class=\"stats\">",
    "      <div class=\"stat\">",
    "        <div class=\"stat-value\">" \o ToString(TotalEndpoints(tagGroups)) \o "</div>",
    "        <div class=\"stat-label\">Endpoints</div>",
    "      </div>",
    "      <div class=\"stat\">",
    "        <div class=\"stat-value\">" \o ToString(Len(TagOrder(s))) \o "</div>",
    "        <div class=\"stat-label\">Categories</div>",
    "      </div>",
    "      <div class=\"stat\">",
    "        <div class=\"stat-value\">v" \o escapeHtml(InfoText(s, "version")) \o "</div>",
    "        <div class=\"stat-label\">Version</div>",
    "      </div>",
    "    </div>", "">>

LandingFormats ==
  <<"    <div class=\"formats\">",
    "      <h2>Available formats</h2>",
    "      <div class=\"format-links\">",
    "        <a href=\"/llms.txt\">/llms.txt</a>",
    "        <a href=\"/to-humans.md\">/to-humans.md</a>",
    "        <a href=\"/openapi.json\">/openapi.json</a>",
    "      </div>",
    "    </div>", "", "    <hr class=\"divider\">", "">>

LandingFooter(s, options) ==
  <<"  </main>", "", "  <footer>",
    "    <p>" \o escapeHtml(ProjectName(s, options)) \o " v"
      \o escapeHtml(InfoText(s, "version")) \o "</p>",
    "    " \o (IF Shows(options, "showPoweredBy")
               THEN "<p class=\"powered-by\">Powered by <a href=\"https://swagent.dev\" target=\"_blank\" rel=\"noopener\">"
                      \o LogoSvg(16) \o " swagent</a></p>"
               ELSE ""),
    "  </footer>", "</body>", "</html>">>

\* The cards joined by a line break and six blanks, after six blanks.
CardLines(cards) ==
  IF cards = <<>> THEN <<"      ">>
  ELSE AsSeq([i \in DOMAIN cards |-> "      " \o cards[i]])

\* The page, `listed` being the declared tags that have endpoints.
LandingLines(s, options, tagGroups, listed) ==
  Lines(LandingHead(s, options) \o LandingHero(s, options)
        \o LandingStats(s, tagGroups)
        \o <<"    <div class=\"cards\">">>
        \o CardLines(AsSeq([i \in DOMAIN listed |-> CategoryCard(s, tagGroups, listed[i])]))
        \o <<"    </div>", "">>
        \o LandingFormats
        \o <<"    <div class=\"reference\">">>
        \o LandingAuth(s)
        \o <<"      ">>
        \o Flatten(AsSeq([i \in DOMAIN listed |-> EndpointSection(s, tagGroups, listed[i])]))
        \o <<"    </div>">>
        \o LandingFooter(s, options))

LandingPage(s, options, tagGroups) ==
  LandingLines(s, options, tagGroups, ListedTags(s, tagGroups))

\* generateHtmlLanding(spec, options): the lines of the page.
generateHtmlLanding(s, options) ==
  IF SetupThrows(s) THEN Thrown ELSE LandingPage(s, options, groupPathsByTag(s))

(***************************************************************************)
(* generate.ts                                                             *)
(***************************************************************************)
\* lines.join('\n')
JoinLines(ls) == Join(ls, "\n")

\* The result of generate: the three documents, each with its lines, the
\* writes made to the caller's document and the calls of deepResolve; a
\* throw of the resolver or of a generator is a throw of generate.
SwagentOutput(resolved, llms, human, landing) ==
  [thrown |-> resolved.thrown \/ llms.thrown \/ human.thrown \/ landing.thrown,
   w |-> resolved.w,
   log |-> resolved.log,
   llmsTxt |-> JoinLines(llms.lines),
   humanDocs |-> JoinLines(human.lines),
   htmlLanding |-> JoinLines(landing.lines),
   llmsLines |-> llms.lines,
   humanLines |-> human.lines,
   landingLines |-> landing.lines]

\* The three generators on the resolved document.
Generated(resolved, options) ==
  IF resolved.thrown THEN SwagentOutput(resolved, Thrown, Thrown, Thrown)
  ELSE SwagentOutput(resolved,
                     generateLlmsTxt(resolved.v, options),
                     generateHumanDocs(resolved.v, options),
                     generateHtmlLanding(resolved.v, options))

\* generate(spec, options)
generate(s, options) == Generated(resolveRefs(s), options)

(***************************************************************************)
(* The schemas the renderers are run on.                                   *)
(***************************************************************************)
\* The deepest chain of nested object schemas among the inputs.
MaxNesting == 6

TProps(type, props, required) ==
  TObj((IF type = "" THEN <<>> ELSE <<<<"type", Str(type)>>>>)
       \o <<<<"properties", TObj(props)>>>>
       \o (IF required = <<>> THEN <<>>
           ELSE <<<<"required", TArr(AsSeq([i \in 1..Len(required) |-> Str(required[i])]))>>>>))

TArrayOf(items) == TObj(<<<<"type", Str("array")>>, <<"items", items>>>>)

\* The shapes of a property of an object schema.
PropertyShapes ==
  { TType("string"), TType("number"), TType("boolean"), TType("integer"),
    TObj(<<>>),
    TObj(<<<<"description", Str("no type")>>, <<"example", Str(TextQuote)>>>>),
    TObj(<<<<"type", Str("number")>>, <<"example", Num(3)>>>>),
    TType("object"),
    TProps("object", <<<<"x", TType("number")>>, <<"y", TType("string")>>>>, <<"x">>),
    TProps("", <<<<"x", TType("string")>>>>, <<>>),
    TArrayOf(TType("string")),
    TArrayOf(TProps("object", <<<<"x", TType("boolean")>>>>, <<"x">>)),
    TArrayOf(TType("object")),
    TType("array"),
    TObj(<<<<"oneOf", TArr(<<TType("string"), TType("number")>>)>>>>),
    Link("SelfProperty") }

RequiredLists == {<<>>, <<"p">>, <<"q">>, <<"q", "p">>}

\* A chain of n object schemas, each the only property of the one above.
RECURSIVE Nested(_, _)
Nested(n, leaf) ==
  IF n = 0 THEN leaf ELSE TProps("object", <<<<"c", Nested(n - 1, leaf)>>>>, <<"c">>)

\* A chain of n unions, each the second variant of the one above.
RECURSIVE NestedUnion(_, _)
NestedUnion(n, leaf) ==
  IF n = 0 THEN leaf
  ELSE TObj(<<<<"oneOf", TArr(<<TType("string"), NestedUnion(n - 1, leaf)>>)>>>>)

Leaves ==
  { TType("number"),
    TProps("object", <<<<"z", TType("string")>>>>, <<>>),
    TArrayOf(TProps("object", <<<<"z", TType("string")>>>>, <<>>)) }

SchemaInputs ==
  {TProps(t, <<<<"p", p>>, <<"q", q>>>>, r) :
     t \in {"object"}, p \in PropertyShapes, q \in PropertyShapes, r \in RequiredLists}
  \cup {TProps(t, <<<<"email", TType("string")>>, <<"password", TType("string")>>,
                   <<"role", TType("boolean")>>>>, <<"email", "password">>) : t \in {"object", ""}}
  \cup {Nested(n, leaf) : n \in 1..MaxNesting, leaf \in Leaves}
  \cup {TArrayOf(Nested(n, leaf)) : n \in 1..MaxNesting, leaf \in Leaves}
  \cup {NestedUnion(n, leaf) : n \in 1..MaxNesting, leaf \in Leaves}
  \cup {Link(name) : name \in {"SelfProperty", "SelfItems", "SelfArray", "SelfOneOf",
                               "SelfAnyOf"}}
  \cup {Null, Undefined, TType("string"), TObj(<<>>), TType("array"), TType("object"),
        TArrayOf(TType("number")), TArrayOf(TType("object")),
        TArrayOf(TProps("", <<<<"x", TType("string")>>>>, <<>>)),
        TObj(<<<<"anyOf", TArr(<<TProps("object", <<<<"a", TType("string")>>>>, <<"a">>),
                                TType("null")>>)>>>>)}

(***************************************************************************)
(* The state machine of the renderers: a schema is built, then one of the  *)
(* two renderers is called on it with the default depth.                   *)
(***************************************************************************)
SchemaInit ==
  /\ doc \in SchemaInputs
  /\ spec = doc
  /\ status = "idle"
  /\ out = Undefined
  /\ calls = <<>>
  /\ history = <<>>

\* out = compactSchema(schema)
CallCompactSchema ==
  /\ status = "idle"
  /\ \E r \in {compactSchema(Target(spec), 0, 0)} :
         /\ out' = IF r.thrown THEN Undefined ELSE Str(r.s)
         /\ calls' = r.log
         /\ status' = IF r.thrown THEN "threw" ELSE "returned"
  /\ UNCHANGED <<doc, spec, history>>

\* out = prettySchema(schema)
CallPrettySchema ==
  /\ status = "idle"
  /\ \E r \in {prettySchema(Target(spec), 0, 0)} :
         /\ out' = IF r.thrown THEN Undefined ELSE Str(r.s)
         /\ calls' = r.log
         /\ status' = IF r.thrown THEN "threw" ELSE "returned"
  /\ UNCHANGED <<doc, spec, history>>

SchemaNext == CallCompactSchema \/ CallPrettySchema

SchemaSpec == SchemaInit /\ [][SchemaNext]_vars

(***************************************************************************)
(* The OpenAPI documents generate is run on: every combination of the      *)
(* optional fields of the document with some shapes of its one operation,  *)
(* and every combination of the optional fields of the operation in the    *)
(* full and in the bare document.                                          *)
(***************************************************************************)
ItemSchema ==
  TProps("object",
         <<<<"id", TType("integer")>>,
           <<"name", TObj(<<<<"type", Str("string")>>, <<"example", Str("Rex")>>>>)>>,
           <<"tags", TArrayOf(TType("string"))>>>>,
         <<"id">>)

FullOperation ==
  << <<"summary", Str("List items")>>,
     <<"description", Str("Returns the items of the store.")>>,
     <<"tags", TArr(<<Str("Items")>>)>>,
     <<"security", TArr(<<TObj(<<<<"bearerAuth", TArr(<<>>)>>>>)>>)>>,
     <<"parameters",
       TArr(<<TObj(<<<<"name", Str("id")>>, <<"in", Str("path")>>, <<"required", Bool(TRUE)>>,
                     <<"schema", TType("integer")>>>>),
              TObj(<<<<"name", Str("limit")>>, <<"in", Str("query")>>,
                     <<"description", Str("Page size")>>,
                     <<"schema", TType("integer")>>>>)>>)>>,
     <<"requestBody",
       TObj(<<<<"content",
                TObj(<<<<"application/json", TObj(<<<<"schema", TRef(RefItem)>>>>)>>>>)>>>>)>>,
     <<"responses",
       TObj(<<<<"200",
                TObj(<<<<"description", Str("The items")>>,
                       <<"content",
                         TObj(<<<<"application/json",
                                  TObj(<<<<"schema", TArrayOf(TRef(RefItem))>>>>)>>>>)>>>>)>>,
              <<"404", TObj(<<<<"description", Str("Not found")>>>>)>>>>)>> >>

OperationFields == {FullOperation[i][1] : i \in 1..Len(FullOperation)}

FullDocument(operation) ==
  << <<"info", TObj(<<<<"title", Str("Pet Store")>>,
                      <<"description", Str(TextTwoParagraphs)>>,
                      <<"version", Str("1.0.0")>>>>)>>,
     <<"servers", TArr(<<TObj(<<<<"url", Str("https://api.example.com")>>>>)>>)>>,
     <<"paths",
       TObj(<<<<"/items/{id}",
                TObj(<<<<"parameters", TArr(<<>>)>>, <<"get", operation>>>>)>>>>)>>,
     <<"tags", TArr(<<TObj(<<<<"name", Str("Items")>>, <<"description", Str(TextAmp)>>>>),
                      TObj(<<<<"name", Str("User Admin")>>>>)>>)>>,
     <<"components",
       TObj(<<<<"securitySchemes",
                TObj(<<<<"bearerAuth", TObj(<<<<"type", Str("http")>>>>)>>,
                       <<"apiKeyAuth", TObj(<<<<"type", Str("apiKey")>>>>)>>>>)>>,
              <<"schemas", TObj(<<<<"Item", ItemSchema>>>>)>>>>)>> >>

DocumentFields == {"info", "servers", "paths", "tags", "components"}

\* The entries of `entries` whose key is in `present`.
Only(entries, present) == SelectSeq(entries, LAMBDA e : e[1] \in present)

ApiDocument(top, fields) ==
  Tag(TObj(Only(FullDocument(TObj(Only(FullOperation, fields))), top)), RootId)

\* The field sets of the operation that go with every field set of the
\* document: none, all, all but one, and one alone.
OperationShapes ==
  {{}, OperationFields}
  \cup {OperationFields \ {f} : f \in OperationFields}
  \cup {{f} : f \in OperationFields}

\* Documents whose optional fields are present and empty.
EmptyFieldDocuments ==
  { Tag(TObj(<<<<"info", TObj(<<>>)>>, <<"servers", TArr(<<>>)>>, <<"paths", TObj(<<>>)>>,
               <<"tags", TArr(<<>>)>>, <<"components", TObj(<<>>)>>>>), RootId),
    Tag(TObj(<<<<"paths", TObj(<<<<"/items", TObj(<<<<"get", TObj(<<>>)>>,
                                                   <<"post", TObj(<<>>)>>>>)>>>>)>>>>),
        RootId) }

ApiDocuments ==
  {ApiDocument(top, fields) : top \in SUBSET DocumentFields, fields \in OperationShapes}
  \cup {ApiDocument(top, fields) :
          top \in {DocumentFields, {"paths"}}, fields \in SUBSET OperationFields}
  \cup EmptyFieldDocuments

\* The options of a call: none, and a title and a base URL of the caller's.
NoOptions == EmptyObject
CallerOptions ==
  TObj(<<<<"title", Str(TextTag)>>, <<"baseUrl", Str("https://docs.example.com")>>>>)
OptionSets == {NoOptions, CallerOptions}

(***************************************************************************)
(* The state machine of generate: a document is built, then generate is    *)
(* called on it, again and again, with options of the caller's choice.     *)
(***************************************************************************)
\* The calls of generate one behaviour makes.
MaxCalls == 3

GenInit ==
  /\ doc \in ApiDocuments
  /\ spec = doc
  /\ status = "idle"
  /\ out = Undefined
  /\ calls = <<>>
  /\ history = <<>>

\* out = generate(spec, options)
CallGenerate(options) ==
  /\ Len(history) < MaxCalls
  /\ \E r \in {generate(spec, options)} :
         /\ spec' = ApplyWrites(spec, r.w)
         /\ status' = IF r.thrown THEN "threw" ELSE "returned"
         /\ out' = IF r.thrown THEN Undefined
                   ELSE [llmsTxt |-> r.llmsTxt, humanDocs |-> r.humanDocs,
                         htmlLanding |-> r.htmlLanding]
         /\ calls' = r.log
         /\ history' = Append(history,
                              [options |-> options, thrown |-> r.thrown,
                               llmsTxt |-> r.llmsTxt, humanDocs |-> r.humanDocs,
                               htmlLanding |-> r.htmlLanding,
                               llmsLines |-> r.llmsLines, humanLines |-> r.humanLines,
                               landingLines |-> r.landingLines])
  /\ UNCHANGED doc

GenNext == \E options \in OptionSets : CallGenerate(options)

GenSpec == GenInit /\ [][GenNext]_vars

(***************************************************************************)
(* Notions the properties of the renderers are stated with.                *)
(***************************************************************************)
\* The call the state machine made: the last one to return.
TopCall == calls[Len(calls)]

\* What the call of fn on `node`, `level` descents below the first, returned.
RenderingOf(fn, node, level) ==
  calls[CHOOSE i \in 1..Len(calls) :
          calls[i].fn = fn /\ calls[i].node = node /\ calls[i].level = level].res

\* A property that is itself an object, and one that is an array.
IsObjectProperty(v) == Get(v, "type") = Str("object") \/ IsObj(Get(v, "properties"))
IsArrayProperty(v) == Get(v, "type") = Str("array")

\* An object schema whose properties are objects and scalars.
IsPlainObjectSchema(v) ==
  /\ IsObj(v) /\ ~HasOwn(v, "oneOf") /\ ~HasOwn(v, "anyOf")
  /\ IsObj(Get(v, "properties"))
  /\ \A i \in 1..Len(Get(v, "properties").e) :
       LET value == Target(Get(v, "properties").e[i][2])
       IN  IsObj(value) /\ (IsObjectProperty(value) \/ ~IsArrayProperty(value))

\* The rendering of the i-th declared property of an object schema: the
\* name, '*' if the name is in the required list, then ':' and the nested
\* rendering for an object, ':type' for a scalar of a declared type other
\* than 'string', and nothing for another scalar.
ExpectedPart(schema, i) ==
  LET key == Get(schema, "properties").e[i][1]
      value == Target(Get(schema, "properties").e[i][2])
  IN  key
      \o (IF Str(key) \in RequiredOf(schema) THEN "*" ELSE "")
      \o (IF IsObjectProperty(value) THEN ":" \o RenderingOf("compactSchema", value, 1)
          ELSE IF HasOwn(value, "type") /\ Get(value, "type") # Str("string")
          THEN ":" \o Get(value, "type").s
          ELSE "")

(***************************************************************************)
(* C9: for an object schema, compactSchema lists the declared properties   *)
(* in declaration order, joined by ', ' inside braces; a name is followed  *)
(* by '*' if and only if it is in the required list; a scalar property has *)
(* a ':type' suffix if and only if its declared type is not 'string'; a    *)
(* property that is an object renders as name:<nested rendering>.          *)
(***************************************************************************)
C9_ObjectRendering ==
  (status = "returned" /\ TopCall.fn = "compactSchema" /\ IsPlainObjectSchema(Target(doc)))
  => out = Str("{" \o Join(AsSeq([i \in 1..Len(Get(Target(doc), "properties").e) |->
                                   ExpectedPart(Target(doc), i)]), ", ") \o "}")

\* A schema with a required object property and an optional scalar one of
\* a type other than 'string' has been rendered.
C9_Witness ==
  /\ status = "returned" /\ TopCall.fn = "compactSchema"
  /\ IsPlainObjectSchema(Target(doc))
  /\ \E i, j \in 1..Len(Get(Target(doc), "properties").e) :
       LET pi == Get(Target(doc), "properties").e[i]
           pj == Get(Target(doc), "properties").e[j]
       IN  /\ IsObjectProperty(Target(pi[2])) /\ Str(pi[1]) \in RequiredOf(Target(doc))
           /\ Get(Target(pi[2]), "properties") # Undefined
           /\ Get(Target(pj[2]), "type") = Str("number")
           /\ Str(pj[1]) \notin RequiredOf(Target(doc))

(***************************************************************************)
(* C10: compactSchema and prettySchema terminate on every schema graph,    *)
(* one with a cycle through properties, items, oneOf or anyOf included,    *)
(* and render '...' for a null schema and for every schema that lies more  *)
(* than 3 nesting levels below the root.                                   *)
(***************************************************************************)
C10_DepthBounded ==
  /\ status # "threw"
  /\ \A i \in 1..Len(calls) :
       (Falsy(calls[i].node) \/ calls[i].level > 3) => calls[i].res = "..."

(***************************************************************************)
(* Notions the properties of generate are stated with.                     *)
(***************************************************************************)
\* Whether `line` is one of the lines ls.
HasLine(ls, line) == \E i \in 1..Len(ls) : ls[i] = line

\* The three documents a call of generate returned.
OutputOf(h) == <<h.thrown, h.llmsTxt, h.humanDocs, h.htmlLanding>>

\* Neither the options nor the document name a title, or a base URL.
NoTitle(options) ==
  ~HasOwn(options, "title")
  /\ (~HasOwn(doc, "info") \/ ~HasOwn(Get(doc, "info"), "title"))

NoBaseUrl(options) ==
  ~HasOwn(options, "baseUrl")
  /\ (~HasOwn(doc, "servers") \/ Get(doc, "servers").a = <<>>)

\* The heading of an operation in the compact summary, were its auth `auth`.
CompactHeading(o, auth) ==
  "### " \o ToUpperCase(o.method) \o " " \o o.path \o " - "
    \o (IF HasOwn(o.operation, "summary") THEN Get(o.operation, "summary").s ELSE "")
    \o " | " \o auth

C8_DefaultsUsed ==
  /\ status # "threw"
  /\ \A k \in 1..Len(history) :
       LET h == history[k]
       IN  /\ ~h.thrown
           /\ NoTitle(h.options)
                => /\ h.llmsLines[1] = "# API"
                   /\ h.humanLines[1] = "# API"
                   /\ HasLine(h.landingLines, "  <title>API</title>")
                   /\ HasLine(h.landingLines, "      <h1>API</h1>")
           /\ NoBaseUrl(h.options)
                => /\ HasLine(h.llmsLines, "Base: ")
                   /\ HasLine(h.humanLines, "**Base URL:** ")
           /\ \A i \in 1..Len(OperationsOf(doc)) :
                LET o == OperationsOf(doc)[i]
                IN  /\ ~HasOwn(o.operation, "tags")
                         => /\ HasLine(h.llmsLines, "## Other")
                            /\ HasLine(h.humanLines, "## Other")
                    /\ ~HasOwn(o.operation, "security")
                         => /\ HasLine(h.llmsLines, CompactHeading(o, "NONE"))
                            /\ HasLine(h.humanLines, "**Auth:** None required")

C8_Witness ==
  /\ status = "returned"
  /\ history # <<>>
  /\ NoTitle(history[1].options)
  /\ NoBaseUrl(history[1].options)
  /\ ~HasOwn(doc, "tags")
  /\ ~HasOwn(doc, "components")
  /\ \E i \in 1..Len(OperationsOf(doc)) :
       /\ Entries(OperationsOf(doc)[i].operation) = <<>>
       /\ HasLine(history[1].llmsLines, CompactHeading(OperationsOf(doc)[i], "NONE"))
  /\ HasLine(history[1].llmsLines, "## Other")

(***************************************************************************)
(* The inputs of the formatters of security requirements and of            *)
(* parameters: lists of SecurityRequirement objects (types.ts:71-73) and   *)
(* lists of ParameterObject (types.ts:57-63).                              *)
(***************************************************************************)
\* The longest list of security requirements, and of parameters, of an input.
MaxEntries == 3
MaxParams == 2

SecurityEntries ==
  { TObj(<<<<"bearerAuth", TArr(<<>>)>>>>),
    TObj(<<<<"apiKeyAuth", TArr(<<>>)>>>>),
    TObj(<<<<"oauth2", TArr(<<Str("read")>>)>>>>),
    TObj(<<<<"apiKeyAuth", TArr(<<>>)>>, <<"bearerAuth", TArr(<<>>)>>>>),
    TObj(<<>>) }

ListsOf(S, n) == UNION {[1..m -> S] : m \in 0..n}

SecurityInputs ==
  {Undefined} \cup {TArr(AsSeq(l)) : l \in ListsOf(SecurityEntries, MaxEntries)}

ParamNames == <<"page", "q">>

ParamShapes(name) ==
  { TObj(<<<<"name", Str(name)>>, <<"in", Str(in)>>>> \o required \o schema) :
      in \in {"query", "path"},
      required \in {<<>>, <<<<"required", Bool(TRUE)>>>>, <<<<"required", Bool(FALSE)>>>>},
      schema \in {<<>>, <<<<"schema", TType("string")>>>>, <<<<"schema", TType("integer")>>>>,
                  <<<<"schema", TObj(<<>>)>>>>} }

ParamInputs ==
  {TArr(<<>>)}
  \cup {TArr(<<p>>) : p \in ParamShapes(ParamNames[1])}
  \cup {TArr(<<p, q>>) : p \in ParamShapes(ParamNames[1]), q \in ParamShapes(ParamNames[2])}

(***************************************************************************)
(* The state machine of the formatters: an argument is built, then one of  *)
(* the formatters its type fits is called on it.                           *)
(***************************************************************************)
FormatInit ==
  /\ doc \in SecurityInputs \cup ParamInputs
  /\ spec = doc
  /\ status = "idle"
  /\ out = Undefined
  /\ calls = <<>>
  /\ history = <<>>

Formatted(fn, s) ==
  /\ out' = Str(s)
  /\ calls' = <<[fn |-> fn]>>
  /\ status' = "returned"
  /\ UNCHANGED <<doc, spec, history>>

\* out = formatSecurityCompact(security)
CallFormatSecurityCompact ==
  /\ status = "idle"
  /\ spec \in SecurityInputs
  /\ Formatted("formatSecurityCompact", formatSecurityCompact(spec))

\* out = formatSecurity(security)
CallFormatSecurity ==
  /\ status = "idle"
  /\ spec \in SecurityInputs
  /\ Formatted("formatSecurity", formatSecurity(spec))

\* out = formatQueryCompact(params)
CallFormatQueryCompact ==
  /\ status = "idle"
  /\ spec \in ParamInputs
  /\ Formatted("formatQueryCompact", formatQueryCompact(spec.a))

FormatNext == CallFormatSecurityCompact \/ CallFormatSecurity \/ CallFormatQueryCompact

FormatSpec == FormatInit /\ [][FormatNext]_vars

(***************************************************************************)
(* Notions the properties of the formatters are stated with.               *)
(***************************************************************************)
\* The formatter fn has returned.
Returned(fn) == status = "returned" /\ calls[1].fn = fn

\* security is absent or an empty list.
NoSecurity(security) == security = Undefined \/ security.a = <<>>

\* Some entry of the list has the key scheme.
Names(security, scheme) ==
  /\ ~NoSecurity(security)
  /\ \E i \in 1..Len(security.a) :
       \E j \in 1..Len(security.a[i].e) : security.a[i].e[j][1] = scheme

\* C11: formatSecurityCompact returns 'NONE' exactly for an absent or empty
\* list, 'JWT|KEY' exactly when some entry has the key bearerAuth and some
\* entry has the key apiKeyAuth, 'JWT' exactly when only bearerAuth occurs,
\* 'KEY' exactly when only apiKeyAuth occurs, and 'AUTH' exactly for a
\* non-empty list of which no entry has either key.
C11_CompactAuth ==
  Returned("formatSecurityCompact") =>
    /\ out \in {Str("NONE"), Str("JWT|KEY"), Str("JWT"), Str("KEY"), Str("AUTH")}
    /\ out = Str("NONE") <=> NoSecurity(doc)
    /\ out = Str("JWT|KEY") <=> Names(doc, "bearerAuth") /\ Names(doc, "apiKeyAuth")
    /\ out = Str("JWT") <=> Names(doc, "bearerAuth") /\ ~Names(doc, "apiKeyAuth")
    /\ out = Str("KEY") <=> ~Names(doc, "bearerAuth") /\ Names(doc, "apiKeyAuth")
    /\ out = Str("AUTH") <=>
         ~NoSecurity(doc) /\ ~Names(doc, "bearerAuth") /\ ~Names(doc, "apiKeyAuth")

\* Both schemes named, by two entries of a list that also holds an entry of
\* another scheme, and the formatter has answered 'JWT|KEY'.
C11_Witness ==
  /\ Returned("formatSecurityCompact")
  /\ ~NoSecurity(doc)
  /\ Len(doc.a) = 3
  /\ \A i \in 1..3 : Len(doc.a[i].e) = 1
  /\ doc.a[1].e[1][1] = "oauth2"
  /\ doc.a[2].e[1][1] = "bearerAuth"
  /\ doc.a[3].e[1][1] = "apiKeyAuth"
  /\ out = Str("JWT|KEY")

\* C12: formatSecurity returns 'None required' exactly for an absent or empty
\* list, 'Required' exactly for a non-empty list of which no entry has the
\* key bearerAuth or apiKeyAuth, and otherwise the labels of the recognized
\* schemes that occur, each once however many entries name the scheme, joined
\* by ' or '.
C12_LabelsOnce ==
  Returned("formatSecurity") =>
    /\ out = Str("None required") <=> NoSecurity(doc)
    /\ out = Str("Required") <=>
         ~NoSecurity(doc) /\ ~Names(doc, "bearerAuth") /\ ~Names(doc, "apiKeyAuth")
    /\ Names(doc, "bearerAuth") /\ ~Names(doc, "apiKeyAuth")
         => out = Str("Bearer Token (JWT)")
    /\ ~Names(doc, "bearerAuth") /\ Names(doc, "apiKeyAuth")
         => out = Str("API Key (X-API-Key)")
    /\ Names(doc, "bearerAuth") /\ Names(doc, "apiKeyAuth")
         => out \in {Str("Bearer Token (JWT) or API Key (X-API-Key)"),
                     Str("API Key (X-API-Key) or Bearer Token (JWT)")}

\* The parameters of the list whose location is 'query'.
QueryParams(params) == SelectSeq(params, LAMBDA p : Get(p, "in") = Str("query"))

\* The token of a parameter: '?name', '*' when required, ':type' when the
\* schema has a type other than 'string'.
TokenOf(p) ==
  "?" \o Get(p, "name").s
      \o (IF Get(p, "required") = Bool(TRUE) THEN "*" ELSE "")
      \o (IF /\ HasOwn(p, "schema")
             /\ HasOwn(Get(p, "schema"), "type")
             /\ Get(Get(p, "schema"), "type") # Str("string")
          THEN ":" \o Get(Get(p, "schema"), "type").s ELSE "")

TokensOf(params) == AsSeq([i \in 1..Len(params) |-> TokenOf(params[i])])

\* C13: formatQueryCompact renders one token '?name' for each parameter whose
\* location is 'query' and none for a parameter of another location, in input
\* order, joined by single spaces, with '*' after the name of a required
\* parameter and ':type' for a schema type other than 'string'; an empty list
\* gives the empty string.
C13_QueryTokens ==
  Returned("formatQueryCompact") =>
    out = Str(Join(TokensOf(QueryParams(doc.a)), " "))

(***************************************************************************)
(* The documents groupPathsByTag and the compact summary are run on: two   *)
(* paths, the first with a key that is no operation, two operations and a  *)
(* verb outside HTTP_METHODS, the second with one operation; the tags of   *)
(* the three operations and the declared tags vary.                        *)
(***************************************************************************)
\* The tags of an operation: none, an empty list, and lists of tag names.
TagLists ==
  { <<>>,
    <<<<"tags", TArr(<<>>)>>>>,
    <<<<"tags", TArr(<<Str("Items")>>)>>>>,
    <<<<"tags", TArr(<<Str("Misc")>>)>>>>,
    <<<<"tags", TArr(<<Str("Items"), Str("Misc")>>)>>>>,
    <<<<"tags", TArr(<<Str("Misc"), Str("Items")>>)>>>>,
    <<<<"tags", TArr(<<Str("Items"), Str("Items")>>)>>>>,
    <<<<"tags", TArr(<<Str("7")>>)>>>>,
    <<<<"tags", TArr(<<Str("constructor")>>)>>>> }

\* The declared tags of a document.
TagDeclarations ==
  { <<>>,
    <<<<"tags", TArr(<<TObj(<<<<"name", Str("Items")>>>>)>>)>>>>,
    <<<<"tags", TArr(<<TObj(<<<<"name", Str("Misc")>>, <<"description", Str("The rest")>>>>),
                       TObj(<<<<"name", Str("User Admin")>>>>),
                       TObj(<<<<"name", Str("Items")>>>>)>>)>>>>,
    <<<<"tags", TArr(<<TObj(<<<<"name", Str("Items")>>>>),
                       TObj(<<<<"name", Str("Items")>>>>)>>)>>>> }

TaggedOperation(summary, tags) == TObj(<<<<"summary", Str(summary)>>>> \o tags)

TaggedDocument(t1, t2, t3, declared) ==
  Tag(TObj(<<<<"paths",
               TObj(<<<<"/a", TObj(<<<<"parameters", TArr(<<>>)>>,
                                     <<"get", TaggedOperation("Read a", t1)>>,
                                     <<"head", TaggedOperation("Probe a", t1)>>,
                                     <<"post", TaggedOperation("Write a", t2)>>>>)>>,
                      <<"/b", TObj(<<<<"get", TaggedOperation("Read b", t3)>>>>)>>>>)>>>>
           \o declared), RootId)

TaggedDocuments ==
  {TaggedDocument(t1, t2, t3, declared) :
     t1 \in TagLists, t2 \in TagLists, t3 \in TagLists, declared \in TagDeclarations}

(***************************************************************************)
(* The state machine of the grouping: a document is built, then            *)
(* groupPathsByTag or generateLlmsTxt is called on it.                     *)
(***************************************************************************)
GroupInit ==
  /\ doc \in TaggedDocuments
  /\ spec = doc
  /\ status = "idle"
  /\ out = Undefined
  /\ calls = <<>>
  /\ history = <<>>

\* out = groupPathsByTag(spec)
CallGroupPathsByTag ==
  /\ status = "idle"
  /\ \E thrown \in {GroupingThrows(spec)} :
         /\ status' = IF thrown THEN "threw" ELSE "returned"
         /\ out' = IF thrown THEN Undefined ELSE groupPathsByTag(spec)
  /\ calls' = <<[fn |-> "groupPathsByTag"]>>
  /\ UNCHANGED <<doc, spec, history>>

\* out = generateLlmsTxt(spec)
CallGenerateLlmsTxt ==
  /\ status = "idle"
  /\ \E r \in {generateLlmsTxt(spec, NoOptions)} :
         /\ status' = IF r.thrown THEN "threw" ELSE "returned"
         /\ out' = IF r.thrown THEN Undefined ELSE r.lines
  /\ calls' = <<[fn |-> "generateLlmsTxt"]>>
  /\ UNCHANGED <<doc, spec, history>>

GroupNext == CallGroupPathsByTag \/ CallGenerateLlmsTxt

GroupSpec == GroupInit /\ [][GroupNext]_vars

(***************************************************************************)
(* Notions the properties of the grouping are stated with.                 *)
(***************************************************************************)
\* The function fn was called and has finished.
Finished(fn) == status # "idle" /\ calls[1].fn = fn

\* The operations of a document in path-then-method order: the path, the
\* method and the tag names of each key of a path item that is one of the
\* five verbs; an operation with no tags has the tag 'Other'.
VerbsOf(path) ==
  SelectSeq(path[2].e, LAMBDA m : m[1] \in {"get", "post", "put", "patch", "delete"})

TagNames(operation) ==
  IF \E i \in 1..Len(operation.e) : operation.e[i][1] = "tags"
  THEN LET tags == operation.e[CHOOSE i \in 1..Len(operation.e) :
                                 operation.e[i][1] = "tags"][2].a
       IN  {tags[i].s : i \in 1..Len(tags)}
  ELSE {"Other"}

Traversal(d) ==
  LET paths == d.e[1][2].e
  IN  Flatten(AsSeq([i \in 1..Len(paths) |->
        AsSeq([j \in 1..Len(VerbsOf(paths[i])) |->
                 [path |-> paths[i][1], method |-> VerbsOf(paths[i])[j][1],
                  tags |-> TagNames(VerbsOf(paths[i])[j][2])]])]))

\* The places of the group's endpoints in the traversal.
PlaceOf(d, ep) ==
  CHOOSE i \in 0..Len(Traversal(d)) :
    IF \E j \in 1..Len(Traversal(d)) :
         Traversal(d)[j].path = ep.path /\ Traversal(d)[j].method = ep.method
    THEN i > 0 /\ Traversal(d)[i].path = ep.path /\ Traversal(d)[i].method = ep.method
    ELSE i = 0

\* How many endpoints of the group of `tag` are the operation o.
TimesIn(groups, tag, o) ==
  Cardinality({<<i, j>> \in (1..Len(groups)) \X (1..Len(Traversal(doc)) + 4) :
                 /\ groups[i].tag = tag
                 /\ j <= Len(groups[i].endpoints)
                 /\ groups[i].endpoints[j].path = o.path
                 /\ groups[i].endpoints[j].method = o.method})

TagUniverse == {"Items", "Misc", "Other", "7", "constructor", "User Admin"}

\* C14: groupPathsByTag creates endpoints only for the keys get, post, put,
\* patch and delete of a path item; an operation with tags T is exactly once
\* in the group of each tag of T and in no other group; the endpoints of a
\* group are in the path-then-method order of the document.
C14_GroupedByTag ==
  Finished("groupPathsByTag") =>
    /\ status = "returned"
    /\ \A i \in 1..Len(out) : \A j \in 1..Len(out[i].endpoints) :
         /\ PlaceOf(doc, out[i].endpoints[j]) > 0
         /\ \A k \in 1..Len(out[i].endpoints) :
              j < k => PlaceOf(doc, out[i].endpoints[j]) < PlaceOf(doc, out[i].endpoints[k])
    /\ \A n \in 1..Len(Traversal(doc)) : \A tag \in TagUniverse :
         TimesIn(out, tag, Traversal(doc)[n])
           = IF tag \in Traversal(doc)[n].tags THEN 1 ELSE 0

\* The tag names of the operations in the order the traversal first meets
\* them, and the names spec.tags declares, in order, each once.
RECURSIVE Distinct(_, _)
Distinct(names, met) ==
  IF names = <<>> THEN <<>>
  ELSE IF Head(names) \in met THEN Distinct(Tail(names), met)
  ELSE <<Head(names)>> \o Distinct(Tail(names), met \cup {Head(names)})

TagList(operation) ==
  IF \E i \in 1..Len(operation.e) : operation.e[i][1] = "tags"
  THEN LET tags == operation.e[CHOOSE i \in 1..Len(operation.e) :
                                 operation.e[i][1] = "tags"][2].a
       IN  AsSeq([i \in 1..Len(tags) |-> tags[i].s])
  ELSE <<"Other">>

FirstSeen(d) ==
  LET paths == d.e[1][2].e
  IN  Distinct(Flatten(AsSeq([i \in 1..Len(paths) |->
        Flatten(AsSeq([j \in 1..Len(VerbsOf(paths[i])) |->
                         TagList(VerbsOf(paths[i])[j][2])]))])), {})

Declared(d) ==
  IF Len(d.e) = 2
  THEN Distinct(AsSeq([i \in 1..Len(d.e[2][2].a) |-> d.e[2][2].a[i].e[1][2].s]), {})
  ELSE <<>>

\* The sections the summary is to have: the declared tags that have
\* endpoints, then the other tags that have endpoints, as first seen.
SectionsDue(d) ==
  SelectSeq(Declared(d), LAMBDA t : \E i \in 1..Len(FirstSeen(d)) : FirstSeen(d)[i] = t)
  \o SelectSeq(FirstSeen(d), LAMBDA t : \A i \in 1..Len(Declared(d)) : Declared(d)[i] # t)

\* The section headings among the lines.
HeadingsOf(ls) == SelectSeq(ls, LAMBDA l : \E t \in TagUniverse : l = "## " \o t)

\* C15: in the compact summary the tag sections are in the order of
\* spec.tags, followed by the groups of the tags spec.tags does not declare
\* in first-seen order; a tag with no endpoints has no section and every
\* non-empty group is rendered exactly once.
C15_SectionOrder ==
  (Finished("generateLlmsTxt") /\ status = "returned") =>
    HeadingsOf(out) = AsSeq([i \in 1..Len(SectionsDue(doc)) |-> "## " \o SectionsDue(doc)[i]])

(***************************************************************************)
(* The documents and options the landing page is generated from: each of   *)
(* the texts the page inserts is either a plain text or a text with the    *)
(* characters HTML gives a meaning to.                                     *)
(***************************************************************************)
HostileTexts == {TextScript, TextAmp, TextQuote}

\* The texts of a document the page inserts, with their plain values.
PlainTexts ==
  [title |-> "Pet Store", description |-> "A store", version |-> "1.0.0",
   tag |-> "Items", tagDescription |-> "The items", path |-> "/items",
   summary |-> "List items", url |-> "https://api.example.com"]

\* The plain texts with those of `where` replaced by `text`.
TextsWith(text, where) ==
  [f \in DOMAIN PlainTexts |-> IF f \in where THEN text ELSE PlainTexts[f]]

LandingDocument(t) ==
  Tag(TObj(<<<<"info", TObj(<<<<"title", Str(t.title)>>,
                               <<"description", Str(t.description)>>,
                               <<"version", Str(t.version)>>>>)>>,
             <<"servers", TArr(<<TObj(<<<<"url", Str(t.url)>>>>)>>)>>,
             <<"paths",
               TObj(<<<<t.path,
                        TObj(<<<<"get",
                                 TObj(<<<<"summary", Str(t.summary)>>,
                                        <<"tags", TArr(<<Str(t.tag)>>)>>,
                                        <<"security",
                                          TArr(<<TObj(<<<<"bearerAuth", TArr(<<>>)>>>>)>>)>>>>)>>>>)>>>>)>>,
             <<"tags", TArr(<<TObj(<<<<"name", Str(t.tag)>>,
                                     <<"description", Str(t.tagDescription)>>>>)>>)>>>>),
      RootId)

LandingDocuments ==
  {LandingDocument(TextsWith(text, where)) :
     text \in HostileTexts, where \in SUBSET DOMAIN PlainTexts}

\* The options of a call: none, a title and a base URL, a prompt text.
LandingOptions ==
  {NoOptions}
  \cup {TObj(<<<<"title", Str(text)>>, <<"baseUrl", Str(text)>>>>) : text \in HostileTexts}
  \cup {TObj(<<<<"landing", TObj(<<<<"promptText", Str(text)>>>>)>>>>) : text \in HostileTexts}

(***************************************************************************)
(* The state machine of the landing page: a document is built, then        *)
(* generateHtmlLanding is called on it with options of the caller's.       *)
(***************************************************************************)
LandingInit ==
  /\ doc \in LandingDocuments
  /\ spec = doc
  /\ status = "idle"
  /\ out = Undefined
  /\ calls = <<>>
  /\ history = <<>>

\* out = generateHtmlLanding(spec, options)
CallGenerateHtmlLanding(options) ==
  /\ status = "idle"
  /\ \E r \in {generateHtmlLanding(spec, options)} :
         /\ status' = IF r.thrown THEN "threw" ELSE "returned"
         /\ out' = IF r.thrown THEN Undefined ELSE r.lines
  /\ calls' = <<[fn |-> "generateHtmlLanding", options |-> options]>>
  /\ UNCHANGED <<doc, spec, history>>

LandingNext == \E options \in LandingOptions : CallGenerateHtmlLanding(options)

LandingSpec == LandingInit /\ [][LandingNext]_vars

(***************************************************************************)
(* Notions the property of the landing page is stated with.                *)
(***************************************************************************)
\* The escaped form of the texts of the model, written out.
EscapedForm(text) ==
  CASE text = TextScript -> "&lt;script&gt;alert(1)&lt;/script&gt;"
    [] text = TextAmp -> "Fish &amp; Chips"
    [] text = TextQuote -> "say &quot;hi&quot;"
    [] text = TextLearnScript -> "Learn &lt;script&gt;alert(1)&lt;/script&gt;"
    [] text = TextLearnAmp -> "Learn Fish &amp; Chips"
    [] text = TextLearnQuote -> "Learn say &quot;hi&quot;"
    [] OTHER -> text

\* The texts of the document and of the options of the call.
TextsOf(d) ==
  [title |-> d.e[1][2].e[1][2].s, description |-> d.e[1][2].e[2][2].s,
   version |-> d.e[1][2].e[3][2].s, url |-> d.e[2][2].a[1].e[1][2].s,
   path |-> d.e[3][2].e[1][1], summary |-> d.e[3][2].e[1][2].e[1][2].e[1][2].s,
   tag |-> d.e[4][2].a[1].e[1][2].s, tagDescription |-> d.e[4][2].a[1].e[2][2].s]

OptionText(options, key) ==
  IF options.e # <<>> /\ options.e[1][1] = key THEN options.e[1][2].s ELSE ""

TitleDue(d, options) ==
  IF OptionText(options, "title") # "" THEN OptionText(options, "title") ELSE TextsOf(d).title

PromptDue(d, options) ==
  IF options.e # <<>> /\ options.e[1][1] = "landing" THEN options.e[1][2].e[1][2].s
  ELSE IF OptionText(options, "title") # "" THEN "Learn " \o options.e[2][2].s
  ELSE "Learn " \o TextsOf(d).url

\* The lines of the page that hold a text of the document or of the options,
\* with the text in the form `form` gives it.
LinesDue(d, options, form(_)) ==
  { "  <title>" \o form(TitleDue(d, options)) \o "</title>",
    "  <meta name=\"description\" content=\"" \o form(TextsOf(d).description) \o "\">",
    "      <h1>" \o form(TitleDue(d, options)) \o "</h1>",
    "      <p>" \o form(TextsOf(d).description) \o "</p>",
    "        <strong>&gt;</strong> Tell your AI agent: <span class=\"accent\">\""
      \o form(PromptDue(d, options)) \o "\"</span>",
    "        <div class=\"stat-value\">v" \o form(TextsOf(d).version) \o "</div>",
    "      <div class=\"card\"><h3>" \o form(TextsOf(d).tag) \o "</h3><p>"
      \o form(TextsOf(d).tagDescription) \o "</p><span class=\"badge\">1 endpoints</span></div>",
    "      <h2>" \o form(TextsOf(d).tag) \o "</h2>",
    "      <p>" \o form(TextsOf(d).tagDescription) \o "</p>",
    "          <tr><td><code>GET</code></td><td><code>" \o form(TextsOf(d).path)
      \o "</code></td><td>" \o form(TextsOf(d).summary)
      \o "</td><td>Bearer Token (JWT)</td></tr>",
    "    <p>" \o form(TitleDue(d, options)) \o " v" \o form(TextsOf(d).version) \o "</p>" }

AsIs(text) == text

\* The pieces hold none of '<', '>' and '"', and '&' only as the first
\* character of one of the four entities.
IsEscaped(pieces) ==
  \A i \in 1..Len(pieces) :
    /\ pieces[i] \notin {"<", ">", "\""}
    /\ pieces[i] = "&" =>
         i < Len(pieces) /\ pieces[i + 1] \in {"amp;", "lt;", "gt;", "quot;"}

HasOperation(d) ==
  /\ HasOwn(d, "paths")
  /\ \E i \in 1..Len(Get(d, "paths").e) : VerbsOf(Get(d, "paths").e[i]) # <<>>

\* C17: for every document with at least one operation, the compact summary
\* is strictly shorter than the human reference generated from the same
\* resolved document and options: len(llmsTxt) < len(humanDocs).
C17_SummaryShorter ==
  \A i \in 1..Len(history) :
    (~history[i].thrown /\ HasOperation(doc)) =>
      Len(history[i].llmsTxt) < Len(history[i].humanDocs)

\* ---------------------------------------------------------------------------
\* The serving adapters (packages/express, packages/h3, packages/hono, Koa,
\* packages/fastify, packages/nestjs): what they cache and what they answer.
\* ---------------------------------------------------------------------------

\* The texts of one served instance: the fallback texts of generate.ts, and
\* the three documents and the serialised spec of a small Pets API.
FallbackText ==
  "# API\n\n> Documentation generation failed."
FallbackHtml ==
  "<!DOCTYPE html><html><body><h1>API</h1><p>Documentation generation failed.</p></body></html>"
PetsLlmsTxt ==
  "# Pets\n\n## Items\nGET /pets"
PetsHumanDocs ==
  "# Pets\n\n## Items\n\n### GET /pets"
PetsHtmlLanding ==
  "<!DOCTYPE html><html><body><h1>Pets</h1></body></html>"
PetsJson ==
  "{\"info\":{\"title\":\"Pets\"},\"paths\":{\"/pets\":{\"get\":{}}}}"
EmptyJson ==
  "{}"
PatchedJson ==
  "{\"info\":{\"title\":\"Pets\"},\"paths\":{\"/pets\":{\"get\":{}}},\"x-build\":2}"
\* The UTF-16 code units of the texts the adapters hash (String.prototype.charCodeAt).
CharCodes(text) ==
  CASE text = FallbackText ->
         <<35, 32, 65, 80, 73, 10, 10, 62, 32, 68, 111, 99, 117, 109, 101, 110, 116, 97, 116, 105, 111, 110, 32, 103, 101, 110, 101, 114, 97, 116, 105, 111, 110, 32, 102, 97, 105, 108, 101, 100, 46>>
    [] text = FallbackHtml ->
         <<60, 33, 68, 79, 67, 84, 89, 80, 69, 32, 104, 116, 109, 108, 62, 60, 104, 116, 109, 108, 62, 60, 98, 111, 100, 121, 62, 60, 104, 49, 62, 65, 80, 73, 60, 47, 104, 49, 62, 60, 112, 62, 68, 111, 99, 117, 109, 101, 110, 116, 97, 116, 105, 111, 110, 32, 103, 101, 110, 101, 114, 97, 116, 105, 111, 110, 32, 102, 97, 105, 108, 101, 100, 46, 60, 47, 112, 62, 60, 47, 98, 111, 100, 121, 62, 60, 47, 104, 116, 109, 108, 62>>
    [] text = PetsLlmsTxt ->
         <<35, 32, 80, 101, 116, 115, 10, 10, 35, 35, 32, 73, 116, 101, 109, 115, 10, 71, 69, 84, 32, 47, 112, 101, 116, 115>>
    [] text = PetsHumanDocs ->
         <<35, 32, 80, 101, 116, 115, 10, 10, 35, 35, 32, 73, 116, 101, 109, 115, 10, 10, 35, 35, 35, 32, 71, 69, 84, 32, 47, 112, 101, 116, 115>>
    [] text = PetsHtmlLanding ->
         <<60, 33, 68, 79, 67, 84, 89, 80, 69, 32, 104, 116, 109, 108, 62, 60, 104, 116, 109, 108, 62, 60, 98, 111, 100, 121, 62, 60, 104, 49, 62, 80, 101, 116, 115, 60, 47, 104, 49, 62, 60, 47, 98, 111, 100, 121, 62, 60, 47, 104, 116, 109, 108, 62>>
    [] text = PetsJson ->
         <<123, 34, 105, 110, 102, 111, 34, 58, 123, 34, 116, 105, 116, 108, 101, 34, 58, 34, 80, 101, 116, 115, 34, 125, 44, 34, 112, 97, 116, 104, 115, 34, 58, 123, 34, 47, 112, 101, 116, 115, 34, 58, 123, 34, 103, 101, 116, 34, 58, 123, 125, 125, 125, 125>>
    [] text = EmptyJson ->
         <<123, 125>>
    [] text = PatchedJson ->
         <<123, 34, 105, 110, 102, 111, 34, 58, 123, 34, 116, 105, 116, 108, 101, 34, 58, 34, 80, 101, 116, 115, 34, 125, 44, 34, 112, 97, 116, 104, 115, 34, 58, 123, 34, 47, 112, 101, 116, 115, 34, 58, 123, 34, 103, 101, 116, 34, 58, 123, 125, 125, 125, 44, 34, 120, 45, 98, 117, 105, 108, 100, 34, 58, 50, 125>>
    [] text = "" -> <<>>

\* fallbackOutput(): the output served when generation fails.
fallbackOutput ==
  [llmsTxt |-> FallbackText, humanDocs |-> FallbackText, htmlLanding |-> FallbackHtml]

\* The djb2 hash of a sequence of code units from position i on, as an
\* unsigned 32-bit number kept in two 16-bit halves: h := (33 * h + code) mod
\* 2^32. The halves are looked at in every round, so each round works on
\* numbers.
RECURSIVE Djb2From(_, _, _, _)
Djb2From(codes, i, hi, lo) ==
  IF i > Len(codes) \/ hi > 65535 \/ lo > 65535
    THEN <<hi, lo>>
    ELSE Djb2From(codes, i + 1,
                  (33 * hi + ((33 * lo + codes[i]) \div 65536)) % 65536,
                  (33 * lo + codes[i]) % 65536)

Digits ==
  <<"0", "1", "2", "3", "4", "5", "6", "7", "8", "9", "a", "b", "c", "d", "e", "f", "g", "h",
    "i", "j", "k", "l", "m", "n", "o", "p", "q", "r", "s", "t", "u", "v", "w", "x", "y", "z">>

\* The base-36 digits of the unsigned number hi * 65536 + lo.
RECURSIVE ToBase36(_, _)
ToBase36(hi, lo) ==
  IF hi = 0 /\ lo < 36
    THEN Digits[lo + 1]
    ELSE ToBase36(hi \div 36, (((hi % 36) * 65536) + lo) \div 36)
           \o Digits[((((hi % 36) * 65536) + lo) % 36) + 1]

HashOf(halves) == ToBase36(halves[1], halves[2])

\* A 32-bit integer of the code is the pair <<hi, lo>> of the number
\* hi * 65536 + lo, with lo in 0..65535 and hi in -32768..32767.
\* ToInt32: what the bitwise operators make of a number.
ToInt32(hi, lo) ==
  <<IF hi % 65536 >= 32768 THEN (hi % 65536) - 65536 ELSE hi % 65536, lo>>

\* hash << 5
ShiftLeft5(hash) ==
  ToInt32(hash[1] * 32 + (hash[2] \div 2048), (hash[2] * 32) % 65536)

\* ((hash << 5) + hash + content.charCodeAt(i)) & 0xffffffff: the sum is
\* exact, the mask makes a signed 32-bit integer of it.
HashStep(hash, code) ==
  ToInt32(ShiftLeft5(hash)[1] + hash[1] + ((ShiftLeft5(hash)[2] + hash[2] + code) \div 65536),
          (ShiftLeft5(hash)[2] + hash[2] + code) % 65536)

\* The loop of computeEtag from position i on.
RECURSIVE HashFrom(_, _, _)
HashFrom(codes, i, hash) ==
  IF i > Len(codes) \/ hash[1] > 32767
    THEN hash
    ELSE HashFrom(codes, i + 1, HashStep(hash, codes[i]))

SignedKept(hash) == hash
\* hash >>> 0
Unsigned(hash) == <<hash[1] % 65536, hash[2]>>

\* Number.prototype.toString(36) of an integer.
toString36(n) ==
  IF n[1] >= 0 THEN ToBase36(n[1], n[2])
  ELSE IF n[2] = 0 THEN "-" \o ToBase36(0 - n[1], 0)
  ELSE "-" \o ToBase36((0 - n[1]) - 1, 65536 - n[2])

\* computeEtag of a content given by its UTF-16 code units.
Etag(codes) ==
  "\"" \o toString36(Unsigned(HashFrom(codes, 1, <<0, 5381>>))) \o "\""

\* computeEtag(content): the quoted djb2 hash of the content, seed 5381.
computeEtag(content) == Etag(CharCodes(content))

\* estimateTokens(text) == Math.ceil(text.length / 4)
estimateTokens(text) == (Len(text) + 3) \div 4

\* String.prototype.includes
includes(text, search) ==
  \E i \in 1..(Len(text) - Len(search) + 1) : SubSeq(text, i, i + Len(search) - 1) = search

\* ---- Requests and responses ----

MaxRequests == 3

Routes == {"landing", "openapi", "llmsTxt", "humanDocs"}

\* A response under construction: Node's default status, no header, no body.
NewResponse == [status |-> 200, headers |-> <<>>, body |-> ""]

\* res.set / setResponseHeader / c.header / ctx.set; header names are
\* case-insensitive and kept in lower case.
SetHeader(res, name, value) == [res EXCEPT !.headers = (name :> value) @@ @]

\* res.type(contentType)
Type(res, contentType) == SetHeader(res, "content-type", contentType)

\* res.send(content) / return content / ctx.body = content
Send(res, content) == [res EXCEPT !.body = content]

\* res.status(304).end() / statusCode = 304; return '' / c.body(null, 304) / ctx.status = 304
NotModified(res) == [res EXCEPT !.status = 304, !.body = ""]

CacheControl == "public, max-age=3600"

\* The two headers every cached answer sets before its freshness test.
Validators(res, etag) == SetHeader(SetHeader(res, "etag", etag), "cache-control", CacheControl)

\* ---- getContent of the Express, h3, Hono and Koa adapters ----

\* The cache entry built from an output and the serialised spec.
CacheEntry(output, json) ==
  [llmsTxt |-> output.llmsTxt,
   humanDocs |-> output.humanDocs,
   htmlLanding |-> output.htmlLanding,
   etags |-> [llmsTxt |-> computeEtag(output.llmsTxt),
              humanDocs |-> computeEtag(output.humanDocs),
              htmlLanding |-> computeEtag(output.htmlLanding),
              openapi |-> computeEtag(json)]]

\* getContent(): generate once; on a throw cache the fallback output instead.
getContent(cached, setup) ==
  IF cached # Null
    THEN cached
    ELSE IF ~setup.outcome.thrown
      THEN CacheEntry(setup.outcome, setup.json)
      ELSE CacheEntry(fallbackOutput, setup.json)

\* typeof acceptHeader === 'string' && acceptHeader.includes('text/markdown')
wantsMarkdown(acceptHeader) ==
  acceptHeader.k = "str" /\ includes(acceptHeader.s, "text/markdown")

\* ---- Express ----

\* A variant that never answers 304.
sendWithoutCache(req, res, content, contentType, etag) ==
  Send(Type(Validators(res, etag), contentType), content)

sendWithCache(req, res, content, contentType, etag) ==
  IF req.ifNoneMatch = Str(etag)
    THEN NotModified(Validators(res, etag))
    ELSE Send(Type(Validators(res, etag), contentType), content)

\* The markdown branch of the landing routes of Express and h3.
MarkdownVariant(req, res, c) ==
  IF req.ifNoneMatch = Str(c.etags.llmsTxt)
    THEN NotModified(Validators(
           SetHeader(SetHeader(Type(res, "text/markdown; charset=utf-8"),
                               "x-markdown-tokens", ToString(estimateTokens(c.llmsTxt))),
                     "vary", "accept"),
           c.etags.llmsTxt))
    ELSE Send(Validators(
           SetHeader(SetHeader(Type(res, "text/markdown; charset=utf-8"),
                               "x-markdown-tokens", ToString(estimateTokens(c.llmsTxt))),
                     "vary", "accept"),
           c.etags.llmsTxt), c.llmsTxt)

ExpressLanding(req, res, c) ==
  IF wantsMarkdown(req.accept)
    THEN MarkdownVariant(req, res, c)
    ELSE IF req.ifNoneMatch = Str(c.etags.htmlLanding)
      THEN NotModified(Validators(SetHeader(res, "vary", "accept"), c.etags.htmlLanding))
      ELSE Send(Type(Validators(SetHeader(res, "vary", "accept"), c.etags.htmlLanding),
                     "text/html; charset=utf-8"), c.htmlLanding)

ExpressOpenapi(req, res, c, json) ==
  IF req.ifNoneMatch = Str(c.etags.openapi)
    THEN NotModified(Validators(res, c.etags.openapi))
    ELSE Send(Type(Validators(res, c.etags.openapi), "application/json; charset=utf-8"), json)

swagentExpress(req, c, json) ==
  CASE req.route = "landing" -> ExpressLanding(req, NewResponse, c)
    [] req.route = "openapi" -> ExpressOpenapi(req, NewResponse, c, json)
    [] req.route = "llmsTxt" ->
         sendWithCache(req, NewResponse, c.llmsTxt, "text/plain; charset=utf-8", c.etags.llmsTxt)
    [] req.route = "humanDocs" ->
         sendWithCache(req, NewResponse, c.humanDocs, "text/markdown; charset=utf-8",
                       c.etags.humanDocs)

\* ---- h3, Hono, Koa ----

\* Validators, then 304 on a matching If-None-Match, else the content; the
\* content type is whatever the response already carries.
Answer(ifNoneMatch, res, etag, content) ==
  IF ifNoneMatch = Str(etag)
    THEN NotModified(Validators(res, etag))
    ELSE Send(Validators(res, etag), content)

\* The same with the content type set only on the full answer.
TypedAnswer(ifNoneMatch, res, etag, contentType, content) ==
  IF ifNoneMatch = Str(etag)
    THEN NotModified(Validators(res, etag))
    ELSE Send(Type(Validators(res, etag), contentType), content)

swagentH3(req, c, json) ==
  CASE req.route = "landing" ->
         IF wantsMarkdown(req.accept)
           THEN MarkdownVariant(req, NewResponse, c)
           ELSE Answer(req.ifNoneMatch,
                       SetHeader(Type(NewResponse, "text/html; charset=utf-8"), "vary", "accept"),
                       c.etags.htmlLanding, c.htmlLanding)
    [] req.route = "openapi" ->
         TypedAnswer(req.ifNoneMatch, NewResponse, c.etags.openapi, "application/json", json)
    [] req.route = "llmsTxt" ->
         Answer(req.ifNoneMatch, Type(NewResponse, "text/plain; charset=utf-8"),
                c.etags.llmsTxt, c.llmsTxt)
    [] req.route = "humanDocs" ->
         Answer(req.ifNoneMatch, Type(NewResponse, "text/markdown; charset=utf-8"),
                c.etags.humanDocs, c.humanDocs)

\* The landing route of Hono answers with the HTML page whatever the Accept header.
swagentHono(req, ct, json) ==
  CASE req.route = "landing" ->
         TypedAnswer(req.ifNoneMatch, NewResponse, ct.etags.htmlLanding,
                     "text/html; charset=UTF-8", ct.htmlLanding)
    [] req.route = "openapi" ->
         TypedAnswer(req.ifNoneMatch, NewResponse, ct.etags.openapi, "application/json", json)
    [] req.route = "llmsTxt" ->
         TypedAnswer(req.ifNoneMatch, NewResponse, ct.etags.llmsTxt,
                     "text/plain; charset=UTF-8", ct.llmsTxt)
    [] req.route = "humanDocs" ->
         Answer(req.ifNoneMatch, Type(NewResponse, "text/markdown; charset=utf-8"),
                ct.etags.humanDocs, ct.humanDocs)

\* ctx.get(field): the empty string when the request has no such header.
KoaGet(value) == IF value = Undefined THEN Str("") ELSE value

swagentKoa(req, c, json) ==
  CASE req.route = "landing" ->
         TypedAnswer(KoaGet(req.ifNoneMatch), NewResponse, c.etags.htmlLanding,
                     "text/html; charset=utf-8", c.htmlLanding)
    [] req.route = "openapi" ->
         TypedAnswer(KoaGet(req.ifNoneMatch), NewResponse, c.etags.openapi,
                     "application/json; charset=utf-8", json)
    [] req.route = "llmsTxt" ->
         TypedAnswer(KoaGet(req.ifNoneMatch), NewResponse, c.etags.llmsTxt,
                     "text/plain; charset=utf-8", c.llmsTxt)
    [] req.route = "humanDocs" ->
         TypedAnswer(KoaGet(req.ifNoneMatch), NewResponse, c.etags.humanDocs,
                     "text/markdown; charset=utf-8", c.humanDocs)

\* ---- Fastify ----

\* The three module variables of the plugin, as registration leaves them.
FastifyContents == [llmsTxtContent |-> "", humanDocsContent |-> "", htmlContent |-> ""]

\* The onReady hook: the generated texts, or on a throw the fallback texts of
\* llms.txt and of the landing page.
FastifyOnReady(contents, setup) ==
  IF ~setup.outcome.thrown
    THEN [llmsTxtContent |-> setup.outcome.llmsTxt,
          humanDocsContent |-> setup.outcome.humanDocs,
          htmlContent |-> setup.outcome.htmlLanding]
    ELSE [contents EXCEPT !.llmsTxtContent = FallbackText, !.htmlContent = FallbackHtml]

swagentPlugin(req, contents, json) ==
  CASE req.route = "landing" ->
         Send(Type(NewResponse, "text/html; charset=utf-8"), contents.htmlContent)
    [] req.route = "openapi" ->
         Send(Type(NewResponse, "application/json; charset=utf-8"), json)
    [] req.route = "llmsTxt" ->
         Send(Type(NewResponse, "text/plain; charset=utf-8"), contents.llmsTxtContent)
    [] req.route = "humanDocs" ->
         Send(Type(NewResponse, "text/markdown; charset=utf-8"), contents.humanDocsContent)

\* ---- NestJS ----

\* What Nest answers when a handler throws.
InternalServerError ==
  [status |-> 500,
   headers |-> ("content-type" :> "application/json; charset=utf-8"),
   body |-> "{\"statusCode\":500,\"message\":\"Internal server error\"}"]

\* SwagentService.getContent(): generate once, nothing caught; Null stands
\* for the call that throws and leaves the cache empty.
ServiceContent(cached, setup) ==
  IF cached # Null
    THEN cached
    ELSE IF setup.outcome.thrown THEN Null ELSE setup.outcome

\* The four handlers of SwagentController over the service's content.
SwagentController(req, content, json) ==
  CASE req.route = "openapi" ->
         Send(Type(NewResponse, "application/json; charset=utf-8"), json)
    [] req.route # "openapi" /\ content = Null -> InternalServerError
    [] req.route = "landing" /\ content # Null ->
         Send(Type(NewResponse, "text/html; charset=utf-8"), content.htmlLanding)
    [] req.route = "llmsTxt" /\ content # Null ->
         Send(Type(NewResponse, "text/plain; charset=utf-8"), content.llmsTxt)
    [] req.route = "humanDocs" /\ content # Null ->
         Send(Type(NewResponse, "text/markdown; charset=utf-8"), content.humanDocs)

\* The routes SwagentModule.setup registers, over the output generated at setup.
SetupServe(req, output, json) ==
  CASE req.route = "landing" ->
         Send(Type(NewResponse, "text/html; charset=utf-8"), output.htmlLanding)
    [] req.route = "llmsTxt" ->
         Send(Type(NewResponse, "text/plain; charset=utf-8"), output.llmsTxt)
    [] req.route = "humanDocs" ->
         Send(Type(NewResponse, "text/markdown; charset=utf-8"), output.humanDocs)
    [] req.route = "openapi" ->
         Send(Type(NewResponse, "application/json; charset=utf-8"), json)

\* ---- One served instance: the state machine ----

Adapters == {"express", "h3", "hono", "koa", "fastify", "nestjs", "nestjs-setup"}

\* What generate(spec, options) does for the instance's spec: it returns the
\* three documents, or it throws.
PetsOutput ==
  [thrown |-> FALSE, llmsTxt |-> PetsLlmsTxt, humanDocs |-> PetsHumanDocs,
   htmlLanding |-> PetsHtmlLanding]

GenerateThrows == [thrown |-> TRUE]

GenerateOutcomes == {PetsOutput, GenerateThrows}

\* options.routes: the routes set to false.
DisabledRoutes == {{}, {"humanDocs"}, {"landing", "openapi"}}

ServeSetups ==
  {[adapter |-> a, outcome |-> o, json |-> PetsJson, disabled |-> d] :
     a \in Adapters, o \in GenerateOutcomes, d \in DisabledRoutes}

\* The routes an instance registers; SwagentController always has all four.
Registered(setup) ==
  IF setup.adapter = "nestjs" THEN Routes ELSE Routes \ setup.disabled

\* The entity tags a client may hold for this API, current or not.
KnownEtags ==
  {computeEtag(text) :
     text \in {PetsLlmsTxt, PetsHumanDocs, PetsHtmlLanding, PetsJson, FallbackText, FallbackHtml}}

IfNoneMatchValues ==
  {Undefined} \cup {Str(etag) : etag \in KnownEtags}
    \cup {Str(""), Str("*"), Str("\"stale\""), Str("W/" \o computeEtag(PetsLlmsTxt))}

AcceptValues ==
  {Undefined, Str("text/markdown"), Str("text/html"), Str("*/*"),
   Str("text/html, text/markdown;q=0.9")}

\* The requests for a route; only landing routes read the Accept header.
Requests(route) ==
  {[route |-> route, ifNoneMatch |-> m, accept |-> a] :
     m \in IfNoneMatchValues,
     a \in IF route = "landing" THEN AcceptValues ELSE {Undefined}}

\* A variant in which getContent forgets what it built.
CacheDropped(cached, c) == cached

\* cached = { ... }: the cache once getContent has returned c.
CacheWritten(cached, c) == c

\* if (!cached): getContent invokes generate.
Invokes(cached) == cached = Null

\* A handler of the four adapters that share getContent, over the content c.
Cached(adapter, req, cached, c, json) ==
  [memory |-> CacheWritten(cached, c),
   generate |-> Invokes(cached),
   res |-> CASE adapter = "express" -> swagentExpress(req, c, json)
             [] adapter = "h3" -> swagentH3(req, c, json)
             [] adapter = "hono" -> swagentHono(req, c, json)
             [] adapter = "koa" -> swagentKoa(req, c, json)]

\* A handler of SwagentController over the service's content; the openapi
\* handler reads the spec and leaves the service's cache alone.
ViaService(req, cached, content, json) ==
  [memory |-> IF req.route = "openapi" THEN cached ELSE content,
   generate |-> req.route # "openapi" /\ Invokes(cached),
   res |-> SwagentController(req, content, json)]

\* One request handled: the adapter's memory afterwards, whether generate
\* was invoked, and the response.
Handle(setup, memory, req) ==
  CASE setup.adapter \in {"express", "h3", "hono", "koa"} ->
         Cached(setup.adapter, req, memory, getContent(memory, setup), setup.json)
    [] setup.adapter = "fastify" ->
         [memory |-> memory, generate |-> FALSE,
          res |-> swagentPlugin(req, memory, setup.json)]
    [] setup.adapter = "nestjs" ->
         ViaService(req, memory, ServiceContent(memory, setup), setup.json)
    [] setup.adapter = "nestjs-setup" ->
         [memory |-> memory, generate |-> FALSE,
          res |-> SetupServe(req, memory, setup.json)]

ServeInit ==
  /\ doc \in ServeSetups
  /\ spec = doc
  /\ status = "idle"
  /\ out = Null
  /\ calls = <<>>
  /\ history = <<>>

\* The adapter is created: swagentExpress / swagentH3 / swagentHono /
\* swagentKoa return a router with an empty cache, SwagentModule.register a
\* service with an empty cache, the Fastify plugin registers its routes over
\* empty contents, and SwagentModule.setup generates at once, nothing caught.
Mount ==
  /\ status = "idle"
  /\ status' = CASE doc.adapter = "fastify" -> "registered"
                 [] doc.adapter = "nestjs-setup" /\ doc.outcome.thrown -> "threw"
                 [] OTHER -> "serving"
  /\ out' = CASE doc.adapter = "fastify" -> FastifyContents
              [] doc.adapter = "nestjs-setup" /\ ~doc.outcome.thrown -> doc.outcome
              [] OTHER -> Null
  /\ UNCHANGED <<doc, spec, calls, history>>

\* Fastify runs the onReady hook before it listens.
OnReady ==
  /\ status = "registered"
  /\ status' = "serving"
  /\ out' = FastifyOnReady(out, doc)
  /\ UNCHANGED <<doc, spec, calls, history>>

\* A request for a registered route is handled; history keeps the last
\* exchange, calls one entry per request with whether it invoked generate.
Request(route) ==
  /\ status = "serving"
  /\ Len(calls) < MaxRequests
  /\ route \in Registered(doc)
  /\ \E req \in Requests(route) :
       \E r \in {Handle(doc, out, req)} :
         /\ out' = r.memory
         /\ history' = <<[req |-> req, res |-> r.res]>>
         /\ calls' = Append(calls, [fn |-> "request", generate |-> r.generate])
  /\ UNCHANGED <<doc, spec, status>>

RequestLanding == Request("landing")

RequestOpenapi == Request("openapi")

RequestLlmsTxt == Request("llmsTxt")

RequestHumanDocs == Request("humanDocs")

ServeNext ==
  \/ Mount
  \/ OnReady
  \/ RequestLanding
  \/ RequestOpenapi
  \/ RequestLlmsTxt
  \/ RequestHumanDocs

ServeSpec == ServeInit /\ [][ServeNext]_vars

\* ---- Notions for the claims about the adapters ----

DocumentationRoutes == {"landing", "llmsTxt", "humanDocs"}

FailureMessage == "Documentation generation failed"

\* A request has been answered; history holds it with its response.
Answered == status = "serving" /\ history # <<>>

\* A request that carries no If-None-Match header.
Unconditional(req) == req.ifNoneMatch = Undefined

\* C18: for every adapter, if generate throws, the adapter is still set up and
\* every enabled documentation route (landing, llms.txt, to-humans.md) answers
\* with status 200 and a body that contains 'Documentation generation failed':
\* no 5xx, no empty body. Stated for the requests without an If-None-Match
\* header, which no adapter may answer with 304.
C18_FallbackServed ==
  doc.outcome.thrown =>
    /\ status # "threw"
    /\ (/\ Answered
        /\ history[1].req.route \in DocumentationRoutes
        /\ Unconditional(history[1].req))
       => /\ history[1].res.status = 200
          /\ includes(history[1].res.body, FailureMessage)

\* The output an instance has to serve: what generate returned, or the
\* fallback output when it threw.
OutputDue(setup) == IF setup.outcome.thrown THEN fallbackOutput ELSE setup.outcome

\* The full body of a route for a request; the landing route has two variants.
BodyDue(setup, req) ==
  CASE req.route = "landing" ->
         IF wantsMarkdown(req.accept)
           THEN OutputDue(setup).llmsTxt
           ELSE OutputDue(setup).htmlLanding
    [] req.route = "llmsTxt" -> OutputDue(setup).llmsTxt
    [] req.route = "humanDocs" -> OutputDue(setup).humanDocs
    [] req.route = "openapi" -> setup.json

HasHeader(res, name) == name \in DOMAIN res.headers

\* An answer of the Express adapter to a request, as the caching contract
\* has it: the ETag and Cache-Control on it, 304 without a body exactly when
\* If-None-Match equals that ETag, and 200 with the full body otherwise.
CachingAnswer(setup, req, res) ==
  /\ HasHeader(res, "etag")
  /\ HasHeader(res, "cache-control")
  /\ res.headers["cache-control"] = "public, max-age=3600"
  /\ (res.status = 304) <=> (req.ifNoneMatch = Str(res.headers["etag"]))
  /\ res.status = 304 => res.body = ""
  /\ res.status # 304 => (res.status = 200 /\ res.body = BodyDue(setup, req))

ExpressAnswered == Answered /\ doc.adapter = "express"

ExpressCaching == ExpressAnswered => CachingAnswer(doc, history[1].req, history[1].res)

\* The ETag of an answer of the Express adapter is the hash of the full body
\* of the request's route and variant, whatever was asked before.
ExpressEtagOfBody ==
  ExpressAnswered =>
    history[1].res.headers["etag"] = computeEtag(BodyDue(doc, history[1].req))

\* Two consecutive answers of the Express adapter for one route carry one ETag.
SameEtagPerRoute ==
  (/\ ExpressAnswered
   /\ ExpressAnswered'
   /\ history'[1].req.route = history[1].req.route)
  => history'[1].res.headers["etag"] = history[1].res.headers["etag"]

\* The same for two answers of one route in one variant.
SameEtagPerVariant ==
  (/\ ExpressAnswered
   /\ ExpressAnswered'
   /\ history'[1].req.route = history[1].req.route
   /\ wantsMarkdown(history'[1].req.accept) <=> wantsMarkdown(history[1].req.accept))
  => history'[1].res.headers["etag"] = history[1].res.headers["etag"]

LandingAnswered == Answered /\ history[1].req.route = "landing"

\* The Accept header of the request contains 'text/markdown'.
AcceptsMarkdown(req) == req.accept # Undefined /\ includes(req.accept.s, "text/markdown")

\* An answer with the given variant: its ETag on it, 304 exactly when
\* If-None-Match equals that ETag and never for the ETag of the other
\* variant, else 200 with the variant's content.
VariantAnswer(req, res, content, other) ==
  /\ HasHeader(res, "etag")
  /\ res.headers["etag"] = computeEtag(content)
  /\ (res.status = 304) <=> (req.ifNoneMatch = Str(computeEtag(content)))
  /\ (req.ifNoneMatch = Str(computeEtag(other)) /\ computeEtag(other) # computeEtag(content))
       => res.status # 304
  /\ res.status # 304 => (res.status = 200 /\ res.body = content)

\* The markdown variant also carries 'Vary: accept' and the token estimate.
MarkdownHeaders(res, content) ==
  /\ HasHeader(res, "vary")
  /\ res.headers["vary"] = "accept"
  /\ HasHeader(res, "x-markdown-tokens")
  /\ res.headers["x-markdown-tokens"] = ToString(estimateTokens(content))

NegotiatedAnswer(setup, req, res) ==
  IF AcceptsMarkdown(req)
    THEN /\ VariantAnswer(req, res, OutputDue(setup).llmsTxt, OutputDue(setup).htmlLanding)
         /\ MarkdownHeaders(res, OutputDue(setup).llmsTxt)
    ELSE VariantAnswer(req, res, OutputDue(setup).htmlLanding, OutputDue(setup).llmsTxt)

\* C20: on the landing route the variant is chosen by the Accept header and
\* the 304 decision is made against the ETag of the chosen variant: a request
\* whose Accept contains 'text/markdown' gets the llms.txt content with the
\* ETag of /llms.txt, 'Vary: accept' and 'x-markdown-tokens' equal to
\* estimateTokens of that content; any other request gets the HTML page with
\* the HTML ETag; an If-None-Match that holds the ETag of the other variant
\* never produces a 304.
C20_LandingNegotiated ==
  LandingAnswered => NegotiatedAnswer(doc, history[1].req, history[1].res)

\* ---- The lazily caching adapters ----

LazyAdapters == {"express", "h3", "hono", "koa"}

LazyAnswered == Answered /\ doc.adapter \in LazyAdapters

\* The requests so far that invoked generate.
Invocations == {i \in 1..Len(calls) : calls[i].generate}

\* generate is invoked by the first request and by no other, and what that
\* request cached, the output or the fallback, is the cache from then on.
GeneratedOnce ==
  LazyAnswered =>
    /\ Invocations = {1}
    /\ out = CacheEntry(OutputDue(doc), doc.json)

\* The cache of a lazily caching adapter, once written, is never written again.
CacheKept ==
  (doc.adapter \in LazyAdapters /\ out # Null) => out' = out

\* Two consecutive answers of one route: the same ETag, and the same body
\* when both are full answers.
SameAnswers(before, after) ==
  /\ after.res.headers["etag"] = before.res.headers["etag"]
  /\ (after.res.status = 200 /\ before.res.status = 200) => after.res.body = before.res.body

SameAnswerPerRoute ==
  (/\ LazyAnswered
   /\ LazyAnswered'
   /\ history'[1].req.route = history[1].req.route)
  => SameAnswers(history[1], history'[1])

SameAnswerPerVariant ==
  (/\ LazyAnswered
   /\ LazyAnswered'
   /\ history'[1].req.route = history[1].req.route
   /\ wantsMarkdown(history'[1].req.accept) <=> wantsMarkdown(history[1].req.accept))
  => SameAnswers(history[1], history'[1])

TargetOf(c) == lookupRef(RefOf(c.node), doc)

\* A call on a ref node whose ref is not on its chain either returned the
\* node (nothing to follow) or the resolved form of the target one level down.
FollowedOrKept(c) ==
  \/ Falsy(TargetOf(c)) /\ c.res = c.node
  \/ /\ ~Falsy(TargetOf(c))
     /\ WasResolved(TargetOf(c), Append(c.chain, RefOf(c.node)))
     /\ c.res = ResolvedForm(TargetOf(c), Append(c.chain, RefOf(c.node)))

\* C22: the set of active refs is scoped to one resolution branch: every call
\* of deepResolve gets exactly the refs followed on its own chain; the
\* { type: 'object' } placeholder is substituted for a $ref only when its
\* string is on that chain, and a ref that occurs in sibling positions (two
\* properties, two union variants, two array elements) is resolved in each.
C22_BranchScoped ==
  \A i \in 1..Len(calls) :
    /\ calls[i].seen = Range(calls[i].chain)
    /\ (IsRefNode(calls[i].node) /\ RefOf(calls[i].node) \notin Range(calls[i].chain))
         => FollowedOrKept(calls[i])

\* Two calls on the same ref under the same chain, one after the other, both
\* answered with the resolved target, in a document that also has a cycle.
C22_Witness ==
  /\ status = "returned"
  /\ \E i, j \in 1..Len(calls) :
       /\ i < j
       /\ IsRefNode(calls[i].node)
       /\ IsRefNode(calls[j].node)
       /\ RefOf(calls[i].node) = RefOf(calls[j].node)
       /\ calls[i].chain = calls[j].chain
       /\ RefOf(calls[i].node) \notin Range(calls[i].chain)
       /\ ~Falsy(TargetOf(calls[i]))
       /\ calls[i].res # Placeholder
       /\ calls[j].res = calls[i].res
  /\ \E i \in 1..Len(calls) : IsCycleCall(calls[i])

\* ---- Arrays in the compact notation ----

\* The items of an array schema (undefined when it has none).
ItemsOf(v) == IF HasOwn(v, "items") THEN Target(Get(v, "items")) ELSE Undefined

\* Items that are object-shaped: their type is 'object' or they have properties.
ItemsObjectShaped(v) ==
  /\ IsObj(ItemsOf(v))
  /\ (Get(ItemsOf(v), "type") = Str("object") \/ HasOwn(ItemsOf(v), "properties"))

HasRendering(fn, node, level) ==
  \E i \in 1..Len(calls) : calls[i].fn = fn /\ calls[i].node = node /\ calls[i].level = level

\* The rendering of an array schema `level` descents below the first call:
\* '[<nested>]' around the rendering of object-shaped items, else the type
\* of the items, or 'any', followed by '[]'.
IsArrayRendering(text, v, level) ==
  IF ItemsObjectShaped(v)
    THEN /\ HasRendering("compactSchema", ItemsOf(v), level + 1)
         /\ text = "[" \o RenderingOf("compactSchema", ItemsOf(v), level + 1) \o "]"
    ELSE text = (IF IsObj(ItemsOf(v)) /\ HasOwn(ItemsOf(v), "type")
                 THEN Get(ItemsOf(v), "type").s ELSE "any") \o "[]"

\* An array schema that is neither a union nor itself object-shaped.
IsArraySchema(v) ==
  /\ IsObj(v) /\ ~HasOwn(v, "oneOf") /\ ~HasOwn(v, "anyOf")
  /\ Get(v, "type") = Str("array") /\ ~HasOwn(v, "properties")

\* An object schema of two properties, the first of them an array.
HasArrayProperty(v) ==
  /\ IsObj(v) /\ ~HasOwn(v, "oneOf") /\ ~HasOwn(v, "anyOf")
  /\ IsObj(Get(v, "properties"))
  /\ Len(Get(v, "properties").e) = 2
  /\ IsArraySchema(Target(Get(v, "properties").e[1][2]))

\* The text of the first property in the rendering '{first, second}' of an
\* object schema, after its name, its '*' and the colon.
FirstPartFits(text, schema) ==
  LET key == Get(schema, "properties").e[1][1]
      star == IF Str(key) \in RequiredOf(schema) THEN "*" ELSE ""
      head == "{" \o key \o star \o ":"
  IN  /\ Len(text) > Len(head) + 2
      /\ SubSeq(text, 1, Len(head)) = head
      /\ \E n \in 1..(Len(text) - Len(head) - 2) :
           /\ SubSeq(text, Len(head) + n + 1, Len(head) + n + 2) = ", "
           /\ IsArrayRendering(SubSeq(text, Len(head) + 1, Len(head) + n),
                               Target(Get(schema, "properties").e[1][2]), 0)

\* C23: in compactSchema an array whose items are object-shaped (items.type
\* is 'object' or items.properties is present) renders as '[<nested>]' with
\* the nested compact rendering of the items, both as a property
\* ('name:[...]') and at top level; only an array whose items are not
\* object-shaped renders as '<itemType or any>[]'.
C23_ArrayRendering ==
  (status = "returned" /\ TopCall.fn = "compactSchema")
  => /\ IsArraySchema(Target(doc)) => IsArrayRendering(out.s, Target(doc), 0)
     /\ HasArrayProperty(Target(doc)) => FirstPartFits(out.s, Target(doc))

(***************************************************************************)
(* The state machine of the hash: a content is built, as its code units,   *)
(* then computeEtag is called on it.                                       *)
(***************************************************************************)
MaxContent == 4

CodeUnits == {0, 97, 122, 65535}

RECURSIVE Contents(_)
Contents(n) ==
  IF n = 0 THEN {<<>>}
  ELSE Contents(n - 1) \cup {Append(c, u) : c \in Contents(n - 1), u \in CodeUnits}

ServedTexts ==
  {FallbackText, FallbackHtml, PetsLlmsTxt, PetsHumanDocs, PetsHtmlLanding, PetsJson, EmptyJson}

EtagInputs == Contents(MaxContent) \cup {CharCodes(text) : text \in ServedTexts}

EtagInit ==
  /\ doc \in EtagInputs
  /\ spec = doc
  /\ status = "idle"
  /\ out = Undefined
  /\ calls = <<>>
  /\ history = <<>>

\* out = computeEtag(content)
CallComputeEtag ==
  /\ status = "idle"
  /\ Formatted("computeEtag", Etag(spec))

EtagNext == CallComputeEtag

EtagSpec == EtagInit /\ [][EtagNext]_vars

\* The text is a base-36 number in double quotes: ^"[a-z0-9]+"$.
IsQuotedBase36(text) ==
  /\ Len(text) >= 3
  /\ SubSeq(text, 1, 1) = "\"" /\ SubSeq(text, Len(text), Len(text)) = "\""
  /\ \A i \in 2..(Len(text) - 1) : \E d \in 1..36 : SubSeq(text, i, i) = Digits[d]

\* C24: computeEtag(s) is the base-36 rendering, in double quotes, of the
\* unsigned 32-bit djb2 hash of s (h starts at 5381, each character gives
\* h := (33 * h + code) mod 2^32); the signed intermediate values of the code
\* never change the result, which matches ^"[a-z0-9]+"$ for every input, the
\* empty one included, and depends only on s.
C24_EtagIsDjb2 ==
  Returned("computeEtag")
  => /\ out = Str("\"" \o HashOf(Djb2From(doc, 1, 0, 5381)) \o "\"")
     /\ IsQuotedBase36(out.s)

\* A content was hashed whose hash is negative as a signed number, after a
\* prefix whose hash is negative too.
C24_Witness ==
  /\ Returned("computeEtag")
  /\ Len(doc) >= 2
  /\ HashFrom(doc, 1, <<0, 5381>>)[1] < 0
  /\ \E n \in 1..(Len(doc) - 1) : HashFrom(SubSeq(doc, 1, n), 1, <<0, 5381>>)[1] < 0
  /\ C24_EtagIsDjb2

(***************************************************************************)
(* Documents of any JSON values: allOf lists whose elements need not be    *)
(* schemas.  A document of them is built, then resolveRefs is called.      *)
(***************************************************************************)
AllOfElements ==
  {Null, Str("ab"), Num(1), Bool(TRUE), TArr(<<Null>>), TObj(<<>>), TRef(RefB), TType("string")}

JsonUses ==
  {TObj(<<<<"allOf", TArr(<<e>>)>>>>) : e \in AllOfElements}
  \cup {TObj(<<<<"allOf", TArr(<<TType("string"), e>>)>>>>) : e \in AllOfElements}
  \cup {TObj(<<<<"oneOf", TArr(<<TObj(<<<<"allOf", TArr(<<e>>)>>>>)>>)>>>>) : e \in AllOfElements}

JsonDocuments == {Document(a, b, x) : a \in SchemasA, b \in SchemasB, x \in JsonUses}

JsonInit ==
  /\ doc \in JsonDocuments
  /\ spec = doc
  /\ status = "idle"
  /\ out = Undefined
  /\ calls = <<>>
  /\ history = <<>>

JsonNext == CallResolveRefs

JsonSpec == JsonInit /\ [][JsonNext]_vars

\* An allOf list of the use x with an element that is null.
NullFragment ==
  \E e \in {Get(doc, "x")} \cup (IF HasOwn(Get(doc, "x"), "oneOf")
                                  THEN Range(Get(Get(doc, "x"), "oneOf").a) ELSE {}) :
    HasOwn(e, "allOf") /\ Null \in Range(Get(e, "allOf").a)

\* C25: resolveRefs returns normally, without throwing, for every document
\* built from JSON values, whatever its refs, cycles and allOf contents, an
\* allOf list with an element that is null or not an object included.
C25_NeverThrows == status # "threw"

(***************************************************************************)
(* Two passes: a document is built, resolveRefs is called on it, and then  *)
(* on what the first call returned.                                        *)
(***************************************************************************)
\* const again = resolveRefs(resolved)
CallResolveRefsAgain ==
  /\ status = "returned"
  /\ \E r \in {resolveRefs(Tag(Strip(out), RootId))} :
         /\ history' = <<[res |-> r.v, thrown |-> r.thrown]>>
         /\ status' = "resolved again"
  /\ UNCHANGED <<doc, spec, out, calls>>

TwiceNext == CallResolveRefs \/ CallResolveRefsAgain

TwiceSpec == Init /\ [][TwiceNext]_vars

\* The ref nodes within a value.
RECURSIVE RefNodesIn(_)
RefNodesIn(v) ==
  CASE IsRefNode(v) -> {v}
    [] v.k = "obj" -> UNION {RefNodesIn(v.e[i][2]) : i \in 1..Len(v.e)}
    [] v.k = "arr" -> UNION {RefNodesIn(v.a[i]) : i \in 1..Len(v.a)}
    [] OTHER -> {}

\* C26: resolveRefs is idempotent: resolveRefs(resolveRefs(spec)) is
\* deep-equal to resolveRefs(spec); a second pass finds nothing more to
\* resolve, also when a pointer of the input passes through a node that is
\* itself a $ref or an allOf.
C26_Idempotent ==
  status = "resolved again"
  => /\ ~history[1].thrown
     /\ Strip(history[1].res) = Strip(out)

\* C27: groupPathsByTag loses no operation: every operation keyed by get,
\* post, put, patch or delete is in at least one group of the result, and an
\* operation that declares no tags (tags absent or an empty list) is in the
\* group 'Other'.
C27_NoOperationLost ==
  Finished("groupPathsByTag") =>
    /\ status = "returned"
    /\ \A n \in 1..Len(Traversal(doc)) :
         /\ \E tag \in TagUniverse : TimesIn(out, tag, Traversal(doc)[n]) >= 1
         /\ Traversal(doc)[n].tags \subseteq {"Other"}
              => TimesIn(out, "Other", Traversal(doc)[n]) >= 1

(***************************************************************************)
(* The landing page of tagged documents: a document of operations with     *)
(* and without tags is built, then generateHtmlLanding is called on it     *)
(* with no options.                                                        *)
(***************************************************************************)
\* out = generateHtmlLanding(spec)
CallGenerateHtmlLandingPlain == CallGenerateHtmlLanding(NoOptions)

StatsNext == CallGenerateHtmlLandingPlain

StatsSpec == GroupInit /\ [][StatsNext]_vars

StartsWithText(text, prefix) ==
  Len(text) >= Len(prefix) /\ SubSeq(text, 1, Len(prefix)) = prefix

\* The number of endpoint rows in the tables of the page.
RowsListed(lines) ==
  Cardinality({i \in 1..Len(lines) : StartsWithText(lines[i], "          <tr><td><code>")})

\* The value of the statistic with the label `label`.
StatisticLine(lines, label) ==
  lines[(CHOOSE i \in 2..Len(lines) :
           lines[i] = "        <div class=\"stat-label\">" \o label \o "</div>") - 1]

\* C28: on the landing page the 'Endpoints' statistic equals the number of
\* endpoint rows listed in the endpoint reference tables, for every
\* document, those with untagged operations, with operations whose tag
\* spec.tags does not declare and with operations of several tags included.
C28_CountedAreListed ==
  (Finished("generateHtmlLanding") /\ status = "returned")
  => StatisticLine(out, "Endpoints")
       = "        <div class=\"stat-value\">" \o ToString(RowsListed(out)) \o "</div>"

(***************************************************************************)
(* The human reference of tagged documents: a document of operations with  *)
(* and without tags, with or without security schemes, is built, then      *)
(* generateHumanDocs is called on it with no options.                      *)
(***************************************************************************)
\* The components of a document: none, or one that declares bearerAuth.
SchemeDeclarations ==
  { <<>>,
    <<<<"components",
        TObj(<<<<"securitySchemes",
                 TObj(<<<<"bearerAuth", TObj(<<<<"type", Str("http")>>>>)>>>>)>>>>)>>>> }

HumanDocuments ==
  {TaggedDocument(t1, t2, t3, declared \o schemes) :
     t1 \in TagLists, t2 \in TagLists, t3 \in TagLists, declared \in TagDeclarations,
     schemes \in SchemeDeclarations}

HumanInit ==
  /\ doc \in HumanDocuments
  /\ spec = doc
  /\ status = "idle"
  /\ out = Undefined
  /\ calls = <<>>
  /\ history = <<>>

\* out = generateHumanDocs(spec)
CallGenerateHumanDocs ==
  /\ status = "idle"
  /\ \E r \in {generateHumanDocs(spec, NoOptions)} :
         /\ status' = IF r.thrown THEN "threw" ELSE "returned"
         /\ out' = IF r.thrown THEN Undefined ELSE r.lines
  /\ calls' = <<[fn |-> "generateHumanDocs"]>>
  /\ UNCHANGED <<doc, spec, history>>

HumanNext == CallGenerateHumanDocs

HumanSpec == HumanInit /\ [][HumanNext]_vars

\* The names the table of contents links to, and those of the '##' sections
\* after it.
SectionNames == TagUniverse \cup {"Authentication"}

LinkedNames(lines) ==
  {name \in SectionNames :
     \E i \in 1..Len(lines) : StartsWithText(lines[i], "- [" \o name \o "](#")}

HeadingNames(lines) ==
  {name \in SectionNames : \E i \in 1..Len(lines) : lines[i] = "## " \o name}

\* C29: in the human reference the table of contents and the '##' sections
\* correspond: every link of the table of contents (Authentication and each
\* tag) targets a section heading that is in the document, and every tag
\* section of the document has an entry in the table of contents.
C29_ContentsMatchSections ==
  (Finished("generateHumanDocs") /\ status = "returned")
  => /\ LinkedNames(out) \subseteq HeadingNames(out)
     /\ HeadingNames(out) \ {"Authentication"} \subseteq LinkedNames(out)

\* ---- The Fastify plugin that sends entity tags ----

\* The module variables of the plugin, as registration leaves them.
EtagPluginContents ==
  [llmsTxtContent |-> "", humanDocsContent |-> "", htmlContent |-> "",
   etags |-> [llmsTxt |-> "", humanDocs |-> "", htmlLanding |-> "", openapi |-> ""]]

\* The onReady hook: the generated texts and their tags with the tag of the
\* serialised spec, or on a throw the fallback texts of llms.txt, of the
\* human reference and of the landing page, the tags left as they were.
EtagPluginOnReady(contents, setup) ==
  IF ~setup.outcome.thrown
    THEN [llmsTxtContent |-> setup.outcome.llmsTxt,
          humanDocsContent |-> setup.outcome.humanDocs,
          htmlContent |-> setup.outcome.htmlLanding,
          etags |-> [llmsTxt |-> computeEtag(setup.outcome.llmsTxt),
                     humanDocs |-> computeEtag(setup.outcome.humanDocs),
                     htmlLanding |-> computeEtag(setup.outcome.htmlLanding),
                     openapi |-> computeEtag(setup.json)]]
    ELSE [contents EXCEPT !.llmsTxtContent = FallbackText,
                          !.humanDocsContent = FallbackText,
                          !.htmlContent = FallbackHtml]

\* The four routes of the plugin; the openapi route sends the document that
\* fastify.swagger() returns at the time of the request.
swagentEtagPlugin(req, contents, json) ==
  CASE req.route = "landing" ->
         TypedAnswer(req.ifNoneMatch, NewResponse, contents.etags.htmlLanding,
                     "text/html; charset=utf-8", contents.htmlContent)
    [] req.route = "openapi" ->
         TypedAnswer(req.ifNoneMatch, NewResponse, contents.etags.openapi,
                     "application/json; charset=utf-8", json)
    [] req.route = "llmsTxt" ->
         TypedAnswer(req.ifNoneMatch, NewResponse, contents.etags.llmsTxt,
                     "text/plain; charset=utf-8", contents.llmsTxtContent)
    [] req.route = "humanDocs" ->
         TypedAnswer(req.ifNoneMatch, NewResponse, contents.etags.humanDocs,
                     "text/markdown; charset=utf-8", contents.humanDocsContent)

(***************************************************************************)
(* An instance whose spec the caller changes: the adapters that send       *)
(* entity tags serve requests, and between two of them the caller may add  *)
(* a field to the spec object it handed over.  doc is the instance as      *)
(* created, spec the instance with the spec as it now is.                  *)
(***************************************************************************)
EtagAdapters == {"express", "h3", "hono", "koa", "fastify"}

LiveSetups ==
  {[adapter |-> a, outcome |-> o, json |-> PetsJson, disabled |-> d] :
     a \in EtagAdapters, o \in GenerateOutcomes, d \in DisabledRoutes}

LiveInit ==
  /\ doc \in LiveSetups
  /\ spec = doc
  /\ status = "idle"
  /\ out = Null
  /\ calls = <<>>
  /\ history = <<>>

\* The adapter is created: an empty cache, or the plugin's empty contents.
LiveMount ==
  /\ status = "idle"
  /\ status' = IF doc.adapter = "fastify" THEN "registered" ELSE "serving"
  /\ out' = IF doc.adapter = "fastify" THEN EtagPluginContents ELSE Null
  /\ UNCHANGED <<doc, spec, calls, history>>

\* Fastify runs the onReady hook before it listens.
LiveOnReady ==
  /\ status = "registered"
  /\ status' = "serving"
  /\ out' = EtagPluginOnReady(out, spec)
  /\ UNCHANGED <<doc, spec, calls, history>>

\* The caller adds a field to its spec: the spec now serialises to another
\* text, and generate would return the same documents for it.
ChangeSpec ==
  /\ spec.json = PetsJson
  /\ spec' = [spec EXCEPT !.json = PatchedJson]
  /\ UNCHANGED <<doc, status, out, calls, history>>

LiveHandle(setup, memory, req) ==
  IF setup.adapter = "fastify"
    THEN [memory |-> memory, generate |-> FALSE,
          res |-> swagentEtagPlugin(req, memory, setup.json)]
    ELSE Cached(setup.adapter, req, memory, getContent(memory, setup), setup.json)

\* A request for a registered route is handled over the spec as it now is.
LiveRequest(route) ==
  /\ status = "serving"
  /\ Len(calls) < MaxRequests
  /\ route \in Routes \ doc.disabled
  /\ \E req \in Requests(route) :
       \E r \in {LiveHandle(spec, out, req)} :
         /\ out' = r.memory
         /\ history' = <<[req |-> req, res |-> r.res]>>
         /\ calls' = Append(calls, [fn |-> "request", generate |-> r.generate])
  /\ UNCHANGED <<doc, spec, status>>

LiveRequestLanding == LiveRequest("landing")

LiveRequestOpenapi == LiveRequest("openapi")

LiveRequestLlmsTxt == LiveRequest("llmsTxt")

LiveRequestHumanDocs == LiveRequest("humanDocs")

LiveNext ==
  \/ LiveMount
  \/ LiveOnReady
  \/ ChangeSpec
  \/ LiveRequestLanding
  \/ LiveRequestOpenapi
  \/ LiveRequestLlmsTxt
  \/ LiveRequestHumanDocs

LiveSpec == LiveInit /\ [][LiveNext]_vars

\* C30: in the adapters that send entity tags every 200 response carries an
\* ETag equal to computeEtag of the content served in that response, for any
\* sequence of requests interleaved with changes to the spec held by the
\* caller; on /openapi.json the ETag is the hash of the spec serialised in
\* that same response.
C30_EtagOfServed ==
  \A i \in 1..Len(history) :
    history[i].res.status = 200
    => /\ "etag" \in DOMAIN history[i].res.headers
       /\ history[i].res.headers["etag"] = computeEtag(history[i].res.body)

====
